---- MODULE Spec2Model ----
(***************************************************************************)
(* Model of the Tecnosystemi cloud client (custom_components/tecnosystemi/ *)
(* api.py): the rotating-token session, the asyncio lock around the HTTP   *)
(* calls, and the callers that run its coroutines concurrently on one      *)
(* event loop.                                                             *)
(*                                                                         *)
(* Granularity: asyncio is cooperative, so a coroutine runs atomically     *)
(* from one suspension point to the next.  The suspension points of the    *)
(* client are (a) asyncio.Lock.acquire when the lock is taken or has       *)
(* waiters and (b) the HTTP request.  One action of the model is one such  *)
(* atomic segment of one coroutine; reading the response and leaving the   *)
(* "async with" (which releases the lock) belong to the segment that the   *)
(* arrival of the response starts.  A suspended coroutine is the record    *)
(* of what it still holds: the operation it runs, whether it is inside     *)
(* the login that calcToken started, and the per-request token it built.   *)
(*                                                                         *)
(* Texts (tokens) are sequences of one-character strings, so that split,   *)
(* int() and the f-string formatting are computed as the code does.        *)
(***************************************************************************)
EXTENDS Integers, Sequences, FiniteSets, Bags, TLC

(***************************************************************************)
(* Bounds of the model.                                                    *)
(***************************************************************************)
NumTasks == 2
MaxCounter == 2
MaxLogins == 2
MaxInit == 1
TickStep == 3600
MaxClock == 3600
\* the status the service answers with when it does not answer 200
HTTP_ERROR == 500
MaxPlants == 2
MaxDevices == 2
MaxCycles == 2
MaxValue == 1
MaxZone == 2
MaxPin == 2
MaxRefresh == 2
MaxText == 33

(***************************************************************************)
(* Program constants.                                                      *)
(***************************************************************************)
TOKEN_LIFETIME == 3600
HTTP_OK == 200
T_CAN_DEFAULT == 230

(***************************************************************************)
(* Texts.                                                                  *)
(***************************************************************************)
Digits == <<"0", "1", "2", "3", "4", "5", "6", "7", "8", "9">>

DigitVal(c) == (CHOOSE i \in 1..10 : Digits[i] = c) - 1

IsDigit(c) == \E i \in 1..10 : Digits[i] = c

\* str(n) as used by the f-string f"{self.token}_{self.counter}"
RECURSIVE Str(_)
Str(n) ==
    IF n < 0 THEN <<"-">> \o Str(0 - n)
    ELSE IF n < 10 THEN <<Digits[n + 1]>>
    ELSE Str(n \div 10) \o <<Digits[(n % 10) + 1]>>

RECURSIVE DigitsValue(_, _)
DigitsValue(s, acc) ==
    IF s = <<>> THEN acc
    ELSE DigitsValue(Tail(s), acc * 10 + DigitVal(Head(s)))

\* int(text): a record [ok, val]; ok = FALSE stands for the ValueError
\* that int() raises on a text that is not an optionally signed decimal.
ParseInt(s) ==
    LET body == IF s # <<>> /\ Head(s) \in {"-", "+"} THEN Tail(s) ELSE s
        neg == s # <<>> /\ Head(s) = "-"
    IN IF body # <<>> /\ \A i \in 1..Len(body) : IsDigit(body[i])
       THEN [ok |-> TRUE,
             val |-> IF neg THEN 0 - DigitsValue(body, 0) ELSE DigitsValue(body, 0)]
       ELSE [ok |-> FALSE, val |-> 0]

\* text.split(sep): k occurrences of sep give k + 1 parts, empty parts kept
RECURSIVE SplitFrom(_, _, _, _)
SplitFrom(s, sep, cur, parts) ==
    IF s = <<>> THEN Append(parts, cur)
    ELSE IF Head(s) = sep THEN SplitFrom(Tail(s), sep, <<>>, Append(parts, cur))
    ELSE SplitFrom(Tail(s), sep, Append(cur, Head(s)), parts)

Split(s, sep) == SplitFrom(s, sep, <<>>, <<>>)

(***************************************************************************)
(* Cipher.  AES-256-CBC with a fixed IV is a keyed injective map; it is    *)
(* kept symbolic: a ciphertext names the key and the text it was made      *)
(* from, and decrypting under another key fails (bad padding).             *)
(***************************************************************************)
salt == <<"n", "s", "9", "1", "w", "r", "4", "8">>

device_id == <<"0", "1", "2", "3", "4", "5", "6", "7", "8", "9">>

OtherDeviceId == <<"9", "8", "7", "6", "5", "4", "3", "2", "1", "0">>

\* AESTool(self.device_id[0:8] + self.salt): the key material
AESTool(dev) == SubSeq(dev, 1, 8) \o salt

getAESTool == AESTool(device_id)

encrypt(key, plaintext) == [key |-> key, text |-> plaintext]

\* [ok, text]; ok = FALSE stands for the ValueError of the unpadder
decrypt(key, ciphertext) ==
    IF ciphertext.key = key
    THEN [ok |-> TRUE, text |-> ciphertext.text]
    ELSE [ok |-> FALSE, text |-> <<>>]

(***************************************************************************)
(* AESTool, byte by byte.  The conversions of api.py:79-116 (UTF-8, PKCS7, *)
(* CBC chaining from the zero IV, base64) are computed as the code runs    *)
(* them.  SHA-256 and the AES block permutation belong to the library:     *)
(* sha256 is a deterministic digest of 32 bytes, aes_block a permutation   *)
(* of 16-byte blocks chosen by the key, aes_block_inv its inverse.         *)
(***************************************************************************)
\* the printable ASCII characters in code order, " " (32) to "~" (126); the
\* grave accent (96), which a string here cannot hold, is written "grave"
Printable ==
    <<" ", "!", "\"", "#", "$", "%", "&", "'", "(", ")", "*", "+", ",", "-",
      ".", "/", "0", "1", "2", "3", "4", "5", "6", "7", "8", "9", ":", ";",
      "<", "=", ">", "?", "@", "A", "B", "C", "D", "E", "F", "G", "H", "I",
      "J", "K", "L", "M", "N", "O", "P", "Q", "R", "S", "T", "U", "V", "W",
      "X", "Y", "Z", "[", "\\", "]", "^", "_", "grave", "a", "b", "c", "d",
      "e", "f", "g", "h", "i", "j", "k", "l", "m", "n", "o", "p", "q", "r", "s",
      "t", "u", "v", "w", "x", "y", "z", "{", "|", "}", "~">>

Ord(c) == 31 + (CHOOSE i \in 1..Len(Printable) : Printable[i] = c)

IsPrintable(b) == b \in 32..126

\* text.encode("utf-8"): one byte per printable ASCII character
encode_utf8(text) == [i \in 1..Len(text) |-> Ord(text[i])]

\* bytes.decode("utf-8") as [ok, text]; only printable ASCII is a text of
\* this model, any other byte gives ok = FALSE
decode_utf8(bytes) ==
    IF \A i \in 1..Len(bytes) : IsPrintable(bytes[i])
    THEN [ok |-> TRUE, text |-> [i \in 1..Len(bytes) |-> Printable[bytes[i] - 31]]]
    ELSE [ok |-> FALSE, text |-> <<>>]

RECURSIVE Xor(_, _)
Xor(a, b) ==
    IF a = 0 THEN b
    ELSE IF b = 0 THEN a
    ELSE 2 * Xor(a \div 2, b \div 2) + ((a + b) % 2)

\* padding.PKCS7(128): blocks of 16 bytes
BLOCK == 16

Blocks(bytes) == Len(bytes) \div BLOCK

BlockAt(bytes, i) == SubSeq(bytes, (i - 1) * BLOCK + 1, i * BLOCK)

XorBlock(x, y) == [i \in 1..BLOCK |-> Xor(x[i], y[i])]

\* a padder that adds nothing to a whole number of blocks
pkcs7_pad_OnlyPartial(bytes) ==
    IF Len(bytes) % BLOCK = 0 /\ bytes # <<>> THEN bytes
    ELSE LET n == BLOCK - (Len(bytes) % BLOCK)
         IN bytes \o [i \in 1..n |-> n]

\* padder.update(data) + padder.finalize(): n bytes of value n, 1 <= n <= 16
pkcs7_pad(bytes) ==
    LET n == BLOCK - (Len(bytes) % BLOCK)
    IN bytes \o [i \in 1..n |-> n]

\* unpadder.update(data) + unpadder.finalize() as [ok, bytes]; ok = FALSE
\* stands for the ValueError of a bad padding
pkcs7_unpad(bytes) ==
    LET len == Len(bytes)
        n == bytes[len]
        bad == [ok |-> FALSE, bytes |-> <<>>]
    IN IF len = 0 \/ len % BLOCK # 0 THEN bad
       ELSE IF n < 1 \/ n > BLOCK THEN bad
       ELSE IF \E i \in (len - n + 1)..len : bytes[i] # n THEN bad
       ELSE [ok |-> TRUE, bytes |-> SubSeq(bytes, 1, len - n)]

\* hashlib.sha256(salt.encode("utf-8")).digest(): 32 bytes
RECURSIVE sha256_byte(_, _, _, _)
sha256_byte(bytes, i, j, acc) ==
    IF j > Len(bytes) THEN acc
    ELSE sha256_byte(bytes, i, j + 1, (acc * 31 + bytes[j] * (i + j)) % 256)

sha256(bytes) == [i \in 1..32 |-> sha256_byte(bytes, i, 1, i)]

\* AESTool.__init__: self.key and self.iv
AESTool_key(material) == sha256(encode_utf8(material))

iv == [i \in 1..BLOCK |-> 0]

\* the AES block permutation under a key, and its inverse
aes_block(key, block) ==
    [i \in 1..BLOCK |->
        Xor((block[(i % BLOCK) + 1] + key[i]) % 256, key[i + BLOCK])]

aes_block_inv(key, block) ==
    [j \in 1..BLOCK |->
        LET i == IF j = 1 THEN BLOCK ELSE j - 1
        IN (Xor(block[i], key[i + BLOCK]) + 256 - key[i]) % 256]

\* encryptor.update(padded) + encryptor.finalize() in CBC mode
RECURSIVE cbc_encrypt_from(_, _, _, _)
cbc_encrypt_from(key, bytes, i, prev) ==
    IF i > Blocks(bytes) THEN <<>>
    ELSE LET c == aes_block(key, XorBlock(BlockAt(bytes, i), prev))
         IN c \o cbc_encrypt_from(key, bytes, i + 1, c)

cbc_encrypt(key, bytes) == cbc_encrypt_from(key, bytes, 1, iv)

\* decryptor.update(data) + decryptor.finalize() in CBC mode
RECURSIVE cbc_decrypt_from(_, _, _, _)
cbc_decrypt_from(key, bytes, i, prev) ==
    IF i > Blocks(bytes) THEN <<>>
    ELSE LET c == BlockAt(bytes, i)
         IN XorBlock(aes_block_inv(key, c), prev)
            \o cbc_decrypt_from(key, bytes, i + 1, c)

cbc_decrypt(key, bytes) == cbc_decrypt_from(key, bytes, 1, iv)

\* the base64 alphabet: sextet v is B64[v + 1]
B64 ==
    <<"A", "B", "C", "D", "E", "F", "G", "H", "I", "J", "K", "L", "M", "N",
      "O", "P", "Q", "R", "S", "T", "U", "V", "W", "X", "Y", "Z", "a", "b",
      "c", "d", "e", "f", "g", "h", "i", "j", "k", "l", "m", "n", "o", "p",
      "q", "r", "s", "t", "u", "v", "w", "x", "y", "z", "0", "1", "2", "3",
      "4", "5", "6", "7", "8", "9", "+", "/">>

IsB64(c) == \E i \in 1..64 : B64[i] = c

B64Val(c) == (CHOOSE i \in 1..64 : B64[i] = c) - 1

\* base64.b64encode(bytes).decode("utf-8")
RECURSIVE b64encode(_)
b64encode(bytes) ==
    IF bytes = <<>> THEN <<>>
    ELSE IF Len(bytes) = 1 THEN
        LET n == bytes[1] * 16
        IN <<B64[(n \div 64) + 1], B64[(n % 64) + 1], "=", "=">>
    ELSE IF Len(bytes) = 2 THEN
        LET n == (bytes[1] * 256 + bytes[2]) * 4
        IN <<B64[(n \div 4096) + 1], B64[((n \div 64) % 64) + 1],
             B64[(n % 64) + 1], "=">>
    ELSE
        LET n == bytes[1] * 65536 + bytes[2] * 256 + bytes[3]
        IN <<B64[(n \div 262144) + 1], B64[((n \div 4096) % 64) + 1],
             B64[((n \div 64) % 64) + 1], B64[(n % 64) + 1]>>
           \o b64encode(SubSeq(bytes, 4, Len(bytes)))

\* base64.b64decode(text) as [ok, bytes] for a text of whole groups of four
\* characters with "=" only at the end of the last group; any other text is
\* outside this model and gives ok = FALSE
RECURSIVE b64decode(_)
b64decode(text) ==
    LET bad == [ok |-> FALSE, bytes |-> <<>>]
    IN IF text = <<>> THEN [ok |-> TRUE, bytes |-> <<>>]
       ELSE IF Len(text) < 4 THEN bad
       ELSE IF ~(IsB64(text[1]) /\ IsB64(text[2])) THEN bad
       ELSE IF text[3] = "=" THEN
           IF Len(text) = 4 /\ text[4] = "="
           THEN LET n == B64Val(text[1]) * 64 + B64Val(text[2])
                IN [ok |-> TRUE, bytes |-> <<n \div 16>>]
           ELSE bad
       ELSE IF ~IsB64(text[3]) THEN bad
       ELSE IF text[4] = "=" THEN
           IF Len(text) = 4
           THEN LET n == (B64Val(text[1]) * 64 + B64Val(text[2])) * 64
                          + B64Val(text[3])
                IN [ok |-> TRUE, bytes |-> <<n \div 1024, (n \div 4) % 256>>]
           ELSE bad
       ELSE IF ~IsB64(text[4]) THEN bad
       ELSE LET n == ((B64Val(text[1]) * 64 + B64Val(text[2])) * 64
                         + B64Val(text[3])) * 64 + B64Val(text[4])
                rest == b64decode(SubSeq(text, 5, Len(text)))
            IN IF rest.ok
               THEN [ok |-> TRUE,
                     bytes |-> <<n \div 65536, (n \div 256) % 256, n % 256>>
                               \o rest.bytes]
               ELSE bad

\* AESTool(material).encrypt(plaintext)
AESTool_encrypt(material, plaintext) ==
    LET padded_data == pkcs7_pad(encode_utf8(plaintext))
        encrypted == cbc_encrypt(AESTool_key(material), padded_data)
    IN b64encode(encrypted)

\* AESTool(material).decrypt(ciphertext) as [ok, text]; ok = FALSE stands
\* for the exception of the decoder, the decryptor or the unpadder
AESTool_decrypt(material, ciphertext) ==
    LET encrypted_data == b64decode(ciphertext)
        bad == [ok |-> FALSE, text |-> <<>>]
    IN IF ~encrypted_data.ok THEN bad
       ELSE IF Len(encrypted_data.bytes) % BLOCK # 0 THEN bad
       ELSE LET decrypted_padded ==
                    cbc_decrypt(AESTool_key(material), encrypted_data.bytes)
                decrypted == pkcs7_unpad(decrypted_padded)
            IN IF ~decrypted.ok THEN bad
               ELSE decode_utf8(decrypted.bytes)

\* an IV that differs from one tool to the next
AESTool_iv_PerCall(n) == [i \in 1..BLOCK |-> n]

\* self.iv of the n-th AESTool that getAESTool makes: the same 16 null bytes
AESTool_iv(n) == iv

\* getAESTool().encrypt(plaintext) by the n-th tool made from a key material
getAESTool_encrypt(material, n, plaintext) ==
    LET padded_data == pkcs7_pad(encode_utf8(plaintext))
        encrypted == cbc_encrypt_from(AESTool_key(material), padded_data, 1,
                                      AESTool_iv(n))
    IN b64encode(encrypted)

(***************************************************************************)
(* State.                                                                  *)
(***************************************************************************)
VARIABLES
    token,          \* self.token: NoToken (None) or the base token
    counter,        \* self.counter
    token_expiry,   \* self.token_expiry
    user_id,        \* self.user_id
    api_lock,       \* self.api_lock: [locked, waiters], waiters in queue order
    flying,         \* the coroutines suspended in their HTTP request (a bag)
    now,            \* time.time()
    srvLogins,      \* service: base tokens handed out so far
    srvBase,        \* service: base token of the last completed login
    srvCtr,         \* service: counter of the last request for srvBase
    lastLogin,      \* service: the text and initial counter of that login's
                    \* token, and whether nothing was done with it so far
    result,         \* the operation the last step ended, and how it ended
    wire,           \* the rotating-token request the last step put on the wire
    calc,           \* the token calcToken returned in the last step
    plants,         \* coordinator._plants
    setups,         \* the runs of coordinator._async_setup so far
    data,           \* the dict "data" that _async_api_call is filling
    published,      \* coordinator.data: [set, data], set = FALSE for None
    cpc,            \* where _async_update_data is: [phase, attempt, i]
    cycle,          \* the invocations of _async_update_data so far
    raised,         \* the exception that left the last invocation, if any
    attempts,       \* the calls of _async_api_call that the last invocation
                    \* to end had made
    calls,          \* the calls made for the device at hand in this attempt
    cmd,            \* the command dict as the caller of an update passed it
    body,           \* the request of the update: its operation and JSON body
    reply,          \* the response to it and how the update ended
    flow,           \* the config flow: its step, self.info["plants"],
                    \* self.user_input, self.devices, self.current_device,
                    \* the errors it shows and the exception that left it
    validated,      \* the <<serial, PIN>> for which the flow's getDeviceState
                    \* returned a state
    heap,           \* the dicts that entities and coordinator share: object
                    \* reference -> dict
    coordinator_data, \* coordinator.data as a reference (NoRef for None)
    entity,         \* an entity: its kind, device_id, zone_state (a
                    \* reference), where its command is and how the last ended
    refresh,        \* the calls of coordinator.async_request_refresh() so far
    entry,          \* the setup of the config entry: its step, the exception
                    \* that ended it and the platforms that were set up
    aes             \* a use of AESTool: its key material, the plaintext, the
                    \* ciphertext of encrypt, what decrypt returned and the
                    \* ciphertext of a second encrypt of the same plaintext

\* the fields of the session and the service, but for result
sessionVars == <<token, counter, token_expiry, user_id, api_lock, flying, now,
                 srvLogins, srvBase, srvCtr, lastLogin, wire, calc>>

coordVars == <<plants, setups, data, published, cpc, cycle, raised, attempts,
               calls>>

vars == <<token, counter, token_expiry, user_id, api_lock, flying, now,
          srvLogins, srvBase, srvCtr, lastLogin, result, wire, calc, coordVars,
          cmd, body, reply, flow, validated, heap, coordinator_data, entity,
          refresh, aes, entry>>

cmdVars == <<cmd, body, reply>>

pairVars == <<flow, validated>>

entityVars == <<heap, coordinator_data, entity, refresh>>

cipherVars == <<aes>>

setupVars == <<entry>>

NoToken == <<>>
NoTok == [key |-> <<>>, text |-> <<>>]
NoWire == [tok |-> NoTok, base |-> NoToken, prev |-> 0]
NoLogin == [text |-> <<>>, init |-> 0, fresh |-> FALSE]
NoCalc == [tok |-> NoTok, relogin |-> FALSE]

TokenOps == {"GetPlants", "getDeviceState", "updateCUState", "updateDeviceState"}

\* outcomes of an operation
NotRun == "not run"
ReturnedTrue == "True"
ReturnedNone == "None"
ReturnedState == "state"
ReturnedPlants == "plants"
ReturnedEmpty == "[]"
TokenNotAvailable == "RuntimeError: Token is not available"
LoginFailedCode == "RuntimeError: Login failed with error code"
LoginFailedStatus == "RuntimeError: Login failed with status code"
UpdateFailedCode == "RuntimeError: Update failed with error code"
UpdateFailedStatus == "RuntimeError: Update failed with HTTP status code"
InvalidTokenFormat == "ValueError: Invalid token format"
ValueErrorRaised == "ValueError"
ContentTypeError == "ContentTypeError"
CancelledError == "CancelledError"
NoResult == [op |-> "none", res |-> NotRun]

\* the coroutines: login() called by a caller, login() called by calcToken
\* inside operation o, operation o holding its token tk
LoginCo == [op |-> "login", nested |-> FALSE, tok |-> NoTok]
NestedLoginCo(o) == [op |-> o, nested |-> TRUE, tok |-> NoTok]
RequestCo(o, tk) == [op |-> o, nested |-> FALSE, tok |-> tk]

IsLoginCo(r) == r.tok = NoTok

NoException == "none"
NoData == [set |-> FALSE, data |-> <<>>]
Idle == [phase |-> "idle", attempt |-> 0, i |-> 0]
NoCalls == [login |-> 0, fetch |-> 0]
NoCmd == <<>>
NoBody == [op |-> "none"]
NoReply == [res |-> NotRun]

\* no refresh cycle is modelled: the coordinator stays as constructed
CoordinatorIdle ==
    /\ plants = <<>>
    /\ setups = 0
    /\ data = <<>>
    /\ published = NoData
    /\ cpc = Idle
    /\ cycle = 0
    /\ raised = NoException
    /\ attempts = 0
    /\ calls = NoCalls

\* no command is modelled
CommandsIdle ==
    /\ cmd = NoCmd
    /\ body = NoBody
    /\ reply = NoReply

NoKeys == [k \in {} |-> <<>>]
NoDevice == [LVPL_Id |-> 0, Serial |-> <<>>]

\* the config flow before the user submitted anything
NoFlow ==
    [step |-> "user", info |-> <<>>, user_input |-> NoKeys, devices |-> <<>>,
     current_device |-> NoDevice, errors |-> "none", raised |-> NoException]

PairingIdle ==
    /\ flow = NoFlow
    /\ validated = {}

NoRef == <<"None", 0, 0>>
NoHeap == [r \in {} |-> NoKeys]
NoEntity == [kind |-> "none", device_id |-> <<>>, zone_state |-> NoRef,
             phase |-> "idle", last |-> NotRun]

\* no entity is modelled
EntitiesIdle ==
    /\ heap = NoHeap
    /\ coordinator_data = NoRef
    /\ entity = NoEntity
    /\ refresh = 0

NoCipher == [material |-> <<>>, plaintext |-> <<>>, ciphertext |-> <<>>,
             decrypted |-> [ok |-> FALSE, text |-> <<>>], again |-> <<>>,
             pc |-> "idle"]

\* no use of AESTool is modelled
CipherIdle == aes = NoCipher

NoEntry == [step |-> "idle", raised |-> NoException, platforms |-> {}]

\* no setup of a config entry is modelled
EntryIdle == entry = NoEntry

Init ==
    /\ CoordinatorIdle
    /\ CommandsIdle
    /\ PairingIdle
    /\ EntitiesIdle
    /\ CipherIdle
    /\ EntryIdle
    /\ token = NoToken
    /\ counter = 0
    /\ token_expiry = 0
    /\ user_id = "None"
    /\ api_lock = [locked |-> FALSE, waiters |-> <<>>]
    /\ flying = EmptyBag
    /\ now = 0
    /\ srvLogins = 0
    /\ srvBase = NoToken
    /\ srvCtr = 0
    /\ lastLogin = NoLogin
    /\ result = NoResult
    /\ wire = NoWire
    /\ calc = NoCalc

(***************************************************************************)
(* The session (TecnosystemiAPI).                                          *)
(***************************************************************************)
\* the test for a missing token left out
Unauthenticated_Never == FALSE

\* self.token is None
Unauthenticated == token = NoToken

\* the expiry test left out
Expired_Never == FALSE

\* time.time() >= self.token_expiry
Expired == now >= token_expiry

\* storeToken that keeps a base token it already has
storeToken_KeepsBase(tk) ==
    LET splitted_token == Split(decrypt(getAESTool, tk).text, "_")
    IN [exc |-> "none",
        token |-> IF token = NoToken THEN splitted_token[1] ELSE token,
        counter |-> ParseInt(splitted_token[Len(splitted_token)]).val,
        token_expiry |-> now + TOKEN_LIFETIME]

\* storeToken that assigns the base token before it looks at the number of
\* parts
storeToken_StoresFirst(tk) ==
    LET splitted_token == Split(decrypt(getAESTool, tk).text, "_")
        n == ParseInt(splitted_token[Len(splitted_token)])
    IN [exc |-> IF Len(splitted_token) = 2 /\ n.ok THEN "none" ELSE InvalidTokenFormat,
        token |-> splitted_token[1],
        counter |-> IF n.ok THEN n.val ELSE counter,
        token_expiry |-> IF n.ok THEN now + TOKEN_LIFETIME ELSE token_expiry]

\* storeToken(token): the fields as the call leaves them, and exc, the
\* exception it raises ("none" when it returns).  self.token is assigned
\* before int() is evaluated, so a counter that is no number leaves the new
\* base token behind with the old counter and expiry.
storeToken(tk) ==
    LET dec == decrypt(getAESTool, tk)
        splitted_token == Split(dec.text, "_")
        same == [exc |-> "none", token |-> token, counter |-> counter,
                 token_expiry |-> token_expiry]
    IN IF ~dec.ok THEN [same EXCEPT !.exc = ValueErrorRaised]
       ELSE IF Len(splitted_token) = 2
       THEN LET n == ParseInt(splitted_token[2])
            IN IF n.ok
               THEN [exc |-> "none", token |-> splitted_token[1],
                     counter |-> n.val, token_expiry |-> now + TOKEN_LIFETIME]
               ELSE [same EXCEPT !.exc = ValueErrorRaised,
                                 !.token = splitted_token[1]]
       ELSE [same EXCEPT !.exc = InvalidTokenFormat]

\* the counter stepped twice
Increment_Twice(c) == c + 2

\* self.counter += 1
Increment(c) == c + 1

\* self.getAESTool().encrypt(f"{self.token}_{self.counter}")
RequestToken(base, c) == encrypt(getAESTool, base \o <<"_">> \o Str(c))

(***************************************************************************)
(* asyncio.Lock: acquire takes a free lock at once when nobody waits and   *)
(* queues behind the waiters otherwise; release frees the lock and wakes   *)
(* the first waiter, which takes the lock when it next runs.               *)
(***************************************************************************)
LockFree(l) == ~l.locked /\ l.waiters = <<>>

Acquire(l, r) ==
    IF LockFree(l) THEN [l EXCEPT !.locked = TRUE]
    ELSE [l EXCEPT !.waiters = Append(@, r)]

Release(l) == [l EXCEPT !.locked = FALSE]

\* the lock wrapper left off updateCUState
UsesLock_NotCU(o) == o \in {"login", "getDeviceState", "updateDeviceState"}

\* which operations wrap their request in "async with self.api_lock"
UsesLock(o) == o \in {"login", "getDeviceState", "updateCUState", "updateDeviceState"}

\* the end of the "async with" around the request of operation o
LeaveRequest(o, l) == IF UsesLock(o) THEN Release(l) ELSE l

\* the coroutines that are running an operation
Active == Len(api_lock.waiters) + BagCardinality(flying)

One(r) == SetToBag({r})

(***************************************************************************)
(* The service, as far as the client can see it: the n-th login it grants  *)
(* hands out base token "T<n>" with some initial counter, or a token text  *)
(* of another shape; it remembers the base token of the last login the     *)
(* client completed and the counter of the last request for it.            *)
(***************************************************************************)
BaseToken(n) == <<"T">> \o Str(n)

InitCounters == {0, MaxInit}

Shapes == {"base_counter", "base", "base_counter_more", "base_word", "other_key"}

\* the text of the n-th login token
LoginText(n, c, shape) ==
    CASE shape = "base" -> BaseToken(n)
      [] shape = "base_counter_more" -> BaseToken(n) \o <<"_">> \o Str(c) \o <<"_", "0">>
      [] shape = "base_word" -> BaseToken(n) \o <<"_", "x">>
      [] OTHER -> BaseToken(n) \o <<"_">> \o Str(c)

\* the Token field of the login response
LoginToken(n, c, shape) ==
    encrypt(IF shape = "other_key" THEN AESTool(OtherDeviceId) ELSE getAESTool,
            LoginText(n, c, shape))

Statuses == {HTTP_OK, HTTP_ERROR}
ResCodes == {0, 1}

\* a rotating-token request goes on the wire (sent), or not yet
Transmit(sent, tk, base, prev) ==
    IF sent
    THEN /\ wire' = [tok |-> tk, base |-> base, prev |-> prev]
         /\ srvCtr' = LET parts == Split(decrypt(getAESTool, tk).text, "_")
                      IN IF parts[1] = base THEN ParseInt(parts[2]).val ELSE prev
    ELSE /\ wire' = NoWire
         /\ srvCtr' = prev

(***************************************************************************)
(* Coroutine segments.                                                     *)
(***************************************************************************)
\* calcToken from "self.counter += 1" on, then operation o up to the
\* suspension of its request: base and c are the session fields read, l and
\* fl the lock and the requests in flight, sb and sc the service's view.
StartRequest(o, base, c, l, fl, sb, sc, re) ==
    LET c1 == Increment(c)
        tk == RequestToken(base, c1)
        sent == IF UsesLock(o) THEN LockFree(l) ELSE TRUE
    IN /\ counter' = c1
       /\ calc' = [tok |-> tk, relogin |-> re]
       /\ api_lock' = IF UsesLock(o) THEN Acquire(l, RequestCo(o, tk)) ELSE l
       /\ flying' = IF sent THEN fl (+) One(RequestCo(o, tk)) ELSE fl
       /\ Transmit(sent, tk, sb, sc)

\* login() up to the suspension of its request, entered with the lock as l
LoginEnterWith(r, l) ==
    /\ api_lock' = Acquire(l, r)
    /\ flying' = IF LockFree(l) THEN flying (+) One(r) ELSE flying

LoginEnter(r) == LoginEnterWith(r, api_lock)

\* calcToken awaited inside the caller's "async with self.api_lock"
calcToken_lock_Held(l) == [l EXCEPT !.locked = TRUE]

\* the lock as the login of calcToken finds it: every operation awaits
\* calcToken before its own "async with self.api_lock", so the caller has not
\* touched the lock
calcToken_lock(l) == l

\* a token operation is called: calcToken, then the request
Call(o) ==
    /\ Active < NumTasks
    /\ counter < MaxCounter
    /\ UNCHANGED <<token, token_expiry, user_id, now, srvLogins, srvBase>>
    /\ UNCHANGED <<coordVars, cmdVars, pairVars, entityVars, cipherVars,
                   setupVars>>
    /\ IF Unauthenticated
       THEN /\ result' = [op |-> o, res |-> TokenNotAvailable]
            /\ wire' = NoWire
            /\ calc' = NoCalc
            /\ UNCHANGED <<counter, api_lock, flying, srvCtr, lastLogin>>
       ELSE /\ result' = NoResult
            /\ IF Expired
               THEN /\ LoginEnterWith(NestedLoginCo(o), calcToken_lock(api_lock))
                    /\ wire' = NoWire
                    /\ calc' = NoCalc
                    /\ UNCHANGED <<counter, srvCtr, lastLogin>>
               ELSE /\ lastLogin' = [lastLogin EXCEPT !.fresh = FALSE]
                    /\ StartRequest(o, token, counter, api_lock, flying,
                                    srvBase, srvCtr, FALSE)

GetPlants == Call("GetPlants")

getDeviceState == Call("getDeviceState")

updateCUState == Call("updateCUState")

updateDeviceState == Call("updateDeviceState")

\* login() is called by a caller (entry setup, pairing, the coordinator)
login ==
    /\ Active < NumTasks
    /\ LoginEnter(LoginCo)
    /\ result' = NoResult
    /\ wire' = NoWire
    /\ calc' = NoCalc
    /\ UNCHANGED <<token, counter, token_expiry, user_id, now, srvLogins,
                   srvBase, srvCtr, lastLogin>>
    /\ UNCHANGED <<coordVars, cmdVars, pairVars, entityVars, cipherVars,
                   setupVars>>

\* the first waiter of the released lock runs: it takes the lock and
\* issues its request
LockAcquired ==
    /\ ~api_lock.locked
    /\ api_lock.waiters # <<>>
    /\ LET r == Head(api_lock.waiters)
       IN /\ api_lock' = [locked |-> TRUE, waiters |-> Tail(api_lock.waiters)]
          /\ flying' = flying (+) One(r)
          /\ Transmit(~IsLoginCo(r), r.tok, srvBase, srvCtr)
    /\ result' = NoResult
    /\ calc' = NoCalc
    /\ UNCHANGED <<token, counter, token_expiry, user_id, now, srvLogins,
                   srvBase, lastLogin>>
    /\ UNCHANGED <<coordVars, cmdVars, pairVars, entityVars, cipherVars,
                   setupVars>>

\* the operation of coroutine r ends with outcome res
Finish(r, res) ==
    /\ result' = [op |-> r.op, res |-> res]
    /\ flying' = flying (-) One(r)
    /\ wire' = NoWire
    /\ calc' = NoCalc

\* the response of the login request of coroutine r is read
LoginResponse(r, status, rescode, c, shape) ==
    /\ BagIn(r, flying)
    /\ IsLoginCo(r)
    /\ now' = now
    /\ UNCHANGED <<coordVars, cmdVars, pairVars, entityVars, cipherVars,
                   setupVars>>
    /\ IF status # HTTP_OK
       THEN /\ Finish(r, LoginFailedStatus)
            /\ api_lock' = Release(api_lock)
            /\ UNCHANGED <<token, counter, token_expiry, user_id, srvLogins,
                           srvBase, srvCtr, lastLogin>>
       ELSE IF rescode # 0
       THEN /\ Finish(r, LoginFailedCode)
            /\ api_lock' = Release(api_lock)
            /\ UNCHANGED <<token, counter, token_expiry, user_id, srvLogins,
                           srvBase, srvCtr, lastLogin>>
       ELSE LET n == srvLogins + 1
                st == storeToken(LoginToken(n, c, shape))
            IN /\ srvLogins < MaxLogins
               /\ srvLogins' = n
               /\ user_id' = "ID"
               /\ token' = st.token
               /\ token_expiry' = st.token_expiry
               /\ IF st.exc # "none"
                  THEN /\ Finish(r, st.exc)
                       /\ api_lock' = Release(api_lock)
                       /\ counter' = st.counter
                       /\ lastLogin' = [lastLogin EXCEPT !.fresh = FALSE]
                       /\ UNCHANGED <<srvBase, srvCtr>>
                  ELSE /\ srvBase' = BaseToken(n)
                       /\ IF r.nested
                          THEN /\ result' = NoResult
                               /\ lastLogin' = [text |-> LoginText(n, c, shape),
                                                init |-> c, fresh |-> FALSE]
                               /\ StartRequest(r.op, st.token, st.counter,
                                               Release(api_lock),
                                               flying (-) One(r), BaseToken(n),
                                               c, TRUE)
                          ELSE /\ Finish(r, ReturnedTrue)
                               /\ api_lock' = Release(api_lock)
                               /\ counter' = st.counter
                               /\ srvCtr' = c
                               /\ lastLogin' = [text |-> LoginText(n, c, shape),
                                                init |-> c, fresh |-> TRUE]

\* a counter given back when the call did not succeed
CounterAfter_RolledBack(res, c) ==
    IF res \in {ReturnedTrue, ReturnedState, ReturnedPlants} THEN c ELSE c - 1

\* self.counter when a token request ended with res: the code after
\* calcToken does not write it, whatever the response
CounterAfter(res, c) == c

\* what the end of a token request leaves unchanged
ResponseFrame ==
    /\ counter' = CounterAfter(result'.res, counter)
    /\ UNCHANGED <<token, token_expiry, user_id, now, srvLogins, srvBase,
                   srvCtr, lastLogin, coordVars,
                   cmdVars, pairVars, entityVars, cipherVars,
                   setupVars>>

\* GetPlants decodes the body (response.json()) before it looks at the
\* status; a body that is not JSON makes the decoding raise
GetPlantsOutcome(status, rescode, decodes) ==
    IF ~decodes THEN ContentTypeError
    ELSE IF status = HTTP_OK /\ rescode = 0 THEN ReturnedPlants
    ELSE ReturnedEmpty

\* the bodies a response of the given status may have: JSON (TRUE) or not;
\* the service answers status 200 with JSON
Decodes(status) == IF status = HTTP_OK THEN {TRUE} ELSE BOOLEAN

GetPlantsResponse(r, status, rescode, decodes) ==
    /\ BagIn(r, flying)
    /\ ~IsLoginCo(r)
    /\ r.op = "GetPlants"
    /\ Finish(r, GetPlantsOutcome(status, rescode, decodes))
    /\ api_lock' = LeaveRequest(r.op, api_lock)
    /\ ResponseFrame

\* another status raises, as it does in the updates
getDeviceStateOutcome_Raises(status) ==
    IF status = HTTP_OK THEN ReturnedState ELSE UpdateFailedStatus

\* getDeviceState reads the response
getDeviceStateOutcome(status) ==
    IF status = HTTP_OK THEN ReturnedState ELSE ReturnedNone

getDeviceStateResponse(r, status) ==
    /\ BagIn(r, flying)
    /\ ~IsLoginCo(r)
    /\ r.op = "getDeviceState"
    /\ Finish(r, getDeviceStateOutcome(status))
    /\ api_lock' = LeaveRequest(r.op, api_lock)
    /\ ResponseFrame

\* a success for any result code
UpdateOutcome_AnyResCode(status, rescode) ==
    IF status = HTTP_OK THEN ReturnedTrue ELSE UpdateFailedStatus

\* updateCUState and updateDeviceState read the response alike
UpdateOutcome(status, rescode) ==
    IF status = HTTP_OK
    THEN IF rescode = 0 THEN ReturnedTrue ELSE UpdateFailedCode
    ELSE UpdateFailedStatus

updateCUStateResponse(r, status, rescode) ==
    /\ BagIn(r, flying)
    /\ ~IsLoginCo(r)
    /\ r.op = "updateCUState"
    /\ Finish(r, UpdateOutcome(status, rescode))
    /\ api_lock' = LeaveRequest(r.op, api_lock)
    /\ ResponseFrame

updateDeviceStateResponse(r, status, rescode) ==
    /\ BagIn(r, flying)
    /\ ~IsLoginCo(r)
    /\ r.op = "updateDeviceState"
    /\ Finish(r, UpdateOutcome(status, rescode))
    /\ api_lock' = LeaveRequest(r.op, api_lock)
    /\ ResponseFrame

\* the operations the refresh cycle awaits inside asyncio.timeout(30)
TimedOps == {"login", "getDeviceState"}

\* the release of the lock left off
Cancelled_KeepsLock(l) == l

\* the lock after CancelledError is thrown into a coroutine inside "async
\* with self.api_lock": __aexit__ releases it
Cancelled(l) == Release(l)

\* the timeout of the cycle cancels the operation whose request is in
\* flight: CancelledError leaves the "async with" and the operation
CancelRequest(r) ==
    /\ BagIn(r, flying)
    /\ r.op \in TimedOps
    /\ Finish(r, CancelledError)
    /\ api_lock' = Cancelled(api_lock)
    /\ ResponseFrame

\* the waiters without the i-th
Without(w, i) == SubSeq(w, 1, i - 1) \o SubSeq(w, i + 1, Len(w))

\* the timeout of the cycle cancels an operation that waits for the lock:
\* acquire() takes its future off the waiters and lets CancelledError pass
CancelWaiter(i) ==
    /\ i \in 1..Len(api_lock.waiters)
    /\ api_lock.waiters[i].op \in TimedOps
    /\ api_lock' = [api_lock EXCEPT !.waiters = Without(@, i)]
    /\ result' = [op |-> api_lock.waiters[i].op, res |-> CancelledError]
    /\ wire' = NoWire
    /\ calc' = NoCalc
    /\ flying' = flying
    /\ ResponseFrame

\* time passes
Tick ==
    /\ now + TickStep <= MaxClock
    /\ now' = now + TickStep
    /\ result' = NoResult
    /\ wire' = NoWire
    /\ calc' = NoCalc
    /\ UNCHANGED <<token, counter, token_expiry, user_id, api_lock, flying,
                   srvLogins, srvBase, srvCtr, lastLogin, coordVars,
                   cmdVars, pairVars, entityVars, cipherVars,
                   setupVars>>

Next ==
    \/ Tick
    \/ login
    \/ GetPlants
    \/ getDeviceState
    \/ updateCUState
    \/ updateDeviceState
    \/ LockAcquired
    \/ \E r \in BagToSet(flying), status \in Statuses, rescode \in ResCodes :
          \E c \in InitCounters, shape \in Shapes :
             LoginResponse(r, status, rescode, c, shape)
    \/ \E r \in BagToSet(flying), status \in Statuses, rescode \in ResCodes :
          \E decodes \in Decodes(status) :
             GetPlantsResponse(r, status, rescode, decodes)
    \/ \E r \in BagToSet(flying), status \in Statuses :
          getDeviceStateResponse(r, status)
    \/ \E r \in BagToSet(flying), status \in Statuses, rescode \in ResCodes :
          updateCUStateResponse(r, status, rescode)
    \/ \E r \in BagToSet(flying), status \in Statuses, rescode \in ResCodes :
          updateDeviceStateResponse(r, status, rescode)

Spec == Init /\ [][Next]_vars

\* the response of the request that holds the lock is read
AnswerGuarded ==
    \E r \in BagToSet(flying), status \in Statuses, rescode \in ResCodes :
       \/ \E c \in InitCounters, shape \in Shapes :
             LoginResponse(r, status, rescode, c, shape)
       \/ getDeviceStateResponse(r, status)
       \/ updateCUStateResponse(r, status, rescode)
       \/ updateDeviceStateResponse(r, status, rescode)

\* the session when every network call under the lock terminates and the
\* event loop runs the waiter that a release woke
FairSpec ==
    /\ Init
    /\ [][Next]_vars
    /\ WF_vars(LockAcquired)
    /\ WF_vars(AnswerGuarded)

\* the operations of a session that does not expire, with the timeout of the
\* refresh cycle cancelling the operations the cycle awaits
Operation ==
    \/ login
    \/ GetPlants
    \/ getDeviceState
    \/ updateCUState
    \/ updateDeviceState
    \/ LockAcquired
    \/ \E r \in BagToSet(flying), status \in Statuses, rescode \in ResCodes :
          \E c \in InitCounters, shape \in Shapes :
             LoginResponse(r, status, rescode, c, shape)
    \/ \E r \in BagToSet(flying), status \in Statuses, rescode \in ResCodes :
          \E decodes \in Decodes(status) :
             GetPlantsResponse(r, status, rescode, decodes)
    \/ \E r \in BagToSet(flying), status \in Statuses :
          getDeviceStateResponse(r, status)
    \/ \E r \in BagToSet(flying), status \in Statuses, rescode \in ResCodes :
          updateCUStateResponse(r, status, rescode)
    \/ \E r \in BagToSet(flying), status \in Statuses, rescode \in ResCodes :
          updateDeviceStateResponse(r, status, rescode)

CancelNext ==
    \/ Operation
    \/ \E r \in BagToSet(flying) : CancelRequest(r)
    \/ \E i \in 1..NumTasks : CancelWaiter(i)

CancelSpec == Init /\ [][CancelNext]_vars

(***************************************************************************)
(* The callers of login() and what they make of the way it ends.           *)
(***************************************************************************)
ConfigEntryNotReady == "ConfigEntryNotReady"
InvalidAuth == "InvalidAuth"
UpdateFailed == "UpdateFailed"
TimeoutError == "TimeoutError"
TypeError == "TypeError"

\* the outcomes that are a RuntimeError, which is what the callers catch;
\* ValueError, TypeError and TimeoutError are no subclasses of it
IsRuntimeError(res) ==
    res \in {TokenNotAvailable, LoginFailedCode, LoginFailedStatus,
             UpdateFailedCode, UpdateFailedStatus}

\* async_setup_entry, as far as its login goes: what it raises, or that it
\* goes on to the first refresh
async_setup_entry(loginRes) ==
    IF loginRes = ReturnedTrue THEN "first refresh"
    ELSE IF IsRuntimeError(loginRes) THEN ConfigEntryNotReady
    ELSE loginRes

\* validate_input, as far as its login goes
validate_input(loginRes) ==
    IF loginRes = ReturnedTrue THEN "info"
    ELSE IF IsRuntimeError(loginRes) THEN InvalidAuth
    ELSE loginRes

\* async_step_user: the error it shows, or that it goes on to the devices
async_step_user(loginRes) ==
    LET info == validate_input(loginRes)
    IN IF info = "info" THEN "device form"
       ELSE IF info = "CannotConnect" THEN "cannot_connect"
       ELSE IF info = InvalidAuth THEN "invalid_auth"
       ELSE "unknown"

\* the "except RuntimeError" of _async_update_data: what leaves it when exc
\* is raised inside
async_update_data_except(exc) ==
    IF IsRuntimeError(exc) THEN UpdateFailed ELSE exc

(***************************************************************************)
(* The refresh cycle (TecnosystemiCoordinator).  The cycle awaits the      *)
(* session's getDeviceState and login one after the other; a step of the   *)
(* cycle is the segment that one awaited call starts when it ends, and the *)
(* call's outcome is the step's input: one of the outcomes the session     *)
(* model above produces, or the TimeoutError that asyncio.timeout(30)      *)
(* raises at the await.  The framework assigns coordinator.data from the   *)
(* value _async_update_data returns and leaves it alone when it raises.    *)
(***************************************************************************)
\* the serial number of the k-th device the service lists
Serial(k) == <<"S">> \o Str(k)

\* the plants GetPlants returned: counts[i] devices in the plant of id i,
\* the serial numbers running on from first
RECURSIVE PlantsFrom(_, _, _)
PlantsFrom(counts, id, first) ==
    IF counts = <<>> THEN <<>>
    ELSE <<[LVPL_Id |-> id,
            ListDevices |-> [j \in 1..Head(counts) |-> Serial(first + j - 1)]]>>
         \o PlantsFrom(Tail(counts), id + 1, first + Head(counts))

RECURSIVE CountSeqs(_)
CountSeqs(n) ==
    IF n = 0 THEN {<<>>}
    ELSE LET shorter == CountSeqs(n - 1)
         IN shorter \cup {Append(cs, k) : cs \in {c \in shorter : Len(c) = n - 1},
                                           k \in 0..MaxDevices}

PlantConfigs == {PlantsFrom(counts, 1, 1) : counts \in CountSeqs(MaxPlants)}

\* "for plant in self._plants: for device in plant.getDevices()": the
\* devices in the order the loops visit them
RECURSIVE Devices(_)
Devices(ps) ==
    IF ps = <<>> THEN <<>>
    ELSE [j \in 1..Len(Head(ps).ListDevices) |->
             [LVPL_Id |-> Head(ps).LVPL_Id, Serial |-> Head(ps).ListDevices[j]]]
         \o Devices(Tail(ps))

\* the key made of the plant alone
Key_PlantOnly(dev) == Str(dev.LVPL_Id)

\* f"{plant.LVPL_Id}_{device.Serial}"
Key(dev) == Str(dev.LVPL_Id) \o <<"_">> \o dev.Serial

\* the state getDeviceState returned in cycle n, with state["Device"] and
\* state["Plant"] set
DeviceState(dev, n) == [Device |-> dev.Serial, Plant |-> dev.LVPL_Id, cycle |-> n]

\* a second timeout retried as well
RetryOnTimeout_Again(attempt) == attempt <= 2

\* "except TimeoutError" encloses the first _async_api_call only
RetryOnTimeout(attempt) == attempt = 1

\* every exception swallowed and the entries fetched so far returned
async_update_data_Swallows(att) == [exc |-> NoException, data |-> att.data]

\* every exception turned into UpdateFailed
async_update_data_AllUpdateFailed(att) ==
    IF att.exc = NoException THEN att ELSE [exc |-> UpdateFailed, data |-> <<>>]

\* _async_update_data, given how its last _async_api_call ended (att: the
\* exception, or the data returned): what it raises or returns
async_update_data_return(att) ==
    IF att.exc = NoException THEN att
    ELSE [exc |-> async_update_data_except(att.exc), data |-> <<>>]

\* _async_update_data ends
EndCycle(att) ==
    LET r == async_update_data_return(att)
    IN /\ raised' = r.exc
       /\ attempts' = IF cpc = Idle THEN 1 ELSE cpc.attempt
       /\ published' = IF r.exc = NoException THEN [set |-> TRUE, data |-> r.data]
                        ELSE published
       /\ cpc' = Idle
       /\ data' = <<>>
       /\ calls' = calls

\* the device at position i is awaited, or the loops are over and
\* _async_api_call returns d
Visit(attempt, i, d) ==
    IF i <= Len(Devices(plants))
    THEN /\ cpc' = [phase |-> "fetch", attempt |-> attempt, i |-> i]
         /\ data' = d
         /\ calls' = [login |-> 0, fetch |-> 1]
         /\ raised' = NoException
         /\ attempts' = attempts
         /\ published' = published
    ELSE EndCycle([exc |-> NoException, data |-> d])

\* an except clause that catches every exception
Caught_Any(exc) == TRUE

\* "except TimeoutError": the one clause around the first _async_api_call
Caught(exc) == exc = TimeoutError

\* exc leaves _async_api_call: the second call is made when the clause
\* catches it, otherwise exc goes on to the outer try
Raise(exc) ==
    IF Caught(exc) /\ RetryOnTimeout(cpc.attempt)
    THEN Visit(cpc.attempt + 1, 1, <<>>)
    ELSE EndCycle([exc |-> exc, data |-> data])

\* asyncio.timeout(30) expires at the await
TimedOut == Raise(TimeoutError)

\* _async_setup run again with every refresh
SetupDue_EveryRefresh(n) == n <= MaxCycles

\* the framework runs _async_setup in async_config_entry_first_refresh,
\* before the first refresh and at no other time
SetupDue(n) == n = 0

\* _async_setup: self._plants = await self.api.GetPlants(), which returned ps
async_setup(ps) ==
    /\ cpc = Idle
    /\ SetupDue(setups)
    /\ setups' = setups + 1
    /\ plants' = ps
    /\ result' = [op |-> "GetPlants",
                  res |-> IF ps = <<>> THEN ReturnedEmpty ELSE ReturnedPlants]
    /\ UNCHANGED <<data, published, cpc, cycle, raised, attempts, calls>>
    /\ UNCHANGED <<sessionVars, cmdVars, pairVars, entityVars, cipherVars,
                   setupVars>>

\* _async_update_data is called
async_update_data ==
    /\ cpc = Idle
    /\ setups > 0
    /\ cycle < MaxCycles
    /\ cycle' = cycle + 1
    /\ result' = NoResult
    /\ IF Devices(plants) = <<>>
       THEN EndCycle([exc |-> NoException, data |-> <<>>])
       ELSE Visit(1, 1, <<>>)
    /\ UNCHANGED <<plants, setups, sessionVars, cmdVars, pairVars, entityVars, cipherVars,
                   setupVars>>

GetStateOutcomes ==
    {ReturnedState, ReturnedNone, TokenNotAvailable, LoginFailedStatus,
     InvalidTokenFormat, TimeoutError}

LoginOutcomes ==
    {ReturnedTrue, LoginFailedCode, LoginFailedStatus, InvalidTokenFormat,
     TimeoutError}

\* the absent state is fetched over and over
AbsentAgain_Relogin ==
    /\ cpc' = [cpc EXCEPT !.phase = "login"]
    /\ calls' = [calls EXCEPT !.login = @ + 1]
    /\ UNCHANGED <<data, published, raised, attempts>>

\* state["Device"] = device with the state that is still None after the
\* login
AbsentAgain == Raise(TypeError)

\* the getDeviceState that _async_api_call awaits ends with res
async_api_call_state(res) ==
    /\ cpc.phase \in {"fetch", "refetch"}
    /\ result' = [op |-> "getDeviceState", res |-> res]
    /\ LET dev == Devices(plants)[cpc.i]
       IN CASE res = TimeoutError -> TimedOut
            [] res = ReturnedState ->
                  Visit(cpc.attempt, cpc.i + 1,
                        (Key(dev) :> DeviceState(dev, cycle)) @@ data)
            [] res = ReturnedNone ->
                  IF cpc.phase = "fetch"
                  THEN /\ cpc' = [cpc EXCEPT !.phase = "login"]
                       /\ calls' = [calls EXCEPT !.login = @ + 1]
                       /\ UNCHANGED <<data, published, raised, attempts>>
                  ELSE AbsentAgain
            [] OTHER -> Raise(res)
    /\ UNCHANGED <<plants, setups, cycle, sessionVars, cmdVars, pairVars, entityVars, cipherVars,
                   setupVars>>

\* the login that _async_api_call awaits ends with res
async_api_call_login(res) ==
    /\ cpc.phase = "login"
    /\ result' = [op |-> "login", res |-> res]
    /\ CASE res = TimeoutError -> TimedOut
         [] res = ReturnedTrue ->
               /\ cpc' = [cpc EXCEPT !.phase = "refetch"]
               /\ calls' = [calls EXCEPT !.fetch = @ + 1]
               /\ UNCHANGED <<data, published, raised, attempts>>
         [] OTHER -> Raise(res)
    /\ UNCHANGED <<plants, setups, cycle, sessionVars, cmdVars, pairVars, entityVars, cipherVars,
                   setupVars>>

CoordInit ==
    /\ CoordinatorIdle
    /\ CommandsIdle
    /\ PairingIdle
    /\ EntitiesIdle
    /\ CipherIdle
    /\ EntryIdle
    /\ token = NoToken
    /\ counter = 0
    /\ token_expiry = 0
    /\ user_id = "None"
    /\ api_lock = [locked |-> FALSE, waiters |-> <<>>]
    /\ flying = EmptyBag
    /\ now = 0
    /\ srvLogins = 0
    /\ srvBase = NoToken
    /\ srvCtr = 0
    /\ lastLogin = NoLogin
    /\ result = NoResult
    /\ wire = NoWire
    /\ calc = NoCalc

CoordNext ==
    \/ \E ps \in PlantConfigs : async_setup(ps)
    \/ async_update_data
    \/ \E res \in GetStateOutcomes : async_api_call_state(res)
    \/ \E res \in LoginOutcomes : async_api_call_login(res)

CoordSpec == CoordInit /\ [][CoordNext]_vars

(***************************************************************************)
(* The commands (updateCUState, updateDeviceState) from the point where    *)
(* calcToken has returned a token: the statements that complete the        *)
(* command dict, the body that is sent and what is made of the response.   *)
(* A dict is a function on its keys; a value says whether it is a number   *)
(* or a text, so that 0 and "0" differ; json.dumps is kept symbolic (the   *)
(* text names the dict it was made from).  One command is followed from    *)
(* its call to its end.                                                    *)
(***************************************************************************)
Number(n) == [int |-> n]
Text(t) == [str |-> t]

\* d[k] = v
Put(d, k, v) == [f \in DOMAIN d \cup {k} |-> IF f = k THEN v ELSE d[f]]

\* the default put over the caller's value
SetDefault_Overrides(d, k, v) == Put(d, k, v)

\* if k not in d: d[k] = v
SetDefault(d, k, v) == IF k \in DOMAIN d THEN d ELSE Put(d, k, v)

json_dumps(d) == [json |-> d]

\* the device and the PIN the entities pass
CmdDevice == [Serial |-> Serial(1), Name |-> "Polaris"]
Pin == Text("1234")

\* updateCUState: the statements on cmd, in their order
updateCUStateCmd(c, pin) ==
    LET c1 == Put(c, "c", Text("upd_cu"))
        c2 == Put(c1, "pin", pin)
        c3 == SetDefault(c2, "is_off", Number(0))
        c4 == SetDefault(c3, "is_cool", Number(1))
        c5 == SetDefault(c4, "cool_mod", Number(1))
        c6 == SetDefault(c5, "t_can", Number(T_CAN_DEFAULT))
        c7 == Put(c6, "f_inv", Number(1))
    IN Put(c7, "f_est", Number(1))

\* updateCUState: data
updateCUStateData(device, pin, c) ==
    [Serial |-> device.Serial, Name |-> device.Name, Pin |-> pin,
     Cmd |-> json_dumps(updateCUStateCmd(c, pin))]

\* updateDeviceState: the statements on cmd, in their order
updateDeviceStateCmd(c, pin, zoneid) ==
    LET c1 == Put(c, "id_zona", Number(zoneid))
        c2 == Put(c1, "pin", pin)
        c3 == Put(c2, "c", Text("upd_zona"))
        c4 == SetDefault(c3, "shu_set", Text("0"))
        c5 == SetDefault(c4, "fan_set", Text("0"))
    IN SetDefault(c5, "is_crono", Number(0))

\* updateDeviceState: data
updateDeviceStateData(device, pin, zoneid, c) ==
    [Serial |-> device.Serial, Pin |-> pin, ZoneId |-> zoneid,
     Name |-> device.Name,
     Cmd |-> json_dumps(updateDeviceStateCmd(c, pin, zoneid))]

\* the dicts a caller may pass: any of the fields, each with one of its values
RECURSIVE DictsOver(_, _)
DictsOver(fields, vals) ==
    IF fields = <<>> THEN {[f \in {} |-> Number(0)]}
    ELSE LET rest == DictsOver(Tail(fields), vals)
         IN rest \cup {Put(d, Head(fields), v) : d \in rest, v \in vals[Head(fields)]}

Numbers == {Number(n) : n \in 0..MaxValue}
NumberTexts == {Text(Str(n)) : n \in 0..MaxValue}

\* what the switch passes (is_off, is_cool, cool_mod, t_can), a field the
\* method does not know (t_set) and fields the method sets itself
CUFields == <<"is_off", "is_cool", "cool_mod", "t_can", "t_set", "c", "f_inv">>

CUCmds ==
    DictsOver(CUFields,
              [is_off |-> Numbers, is_cool |-> Numbers, cool_mod |-> Numbers,
               t_can |-> Numbers, t_set |-> Numbers, c |-> {Text("x")},
               f_inv |-> {Number(0)}])

ZoneFields == <<"shu_set", "fan_set", "is_crono", "t_set", "c", "id_zona">>

ZoneCmds ==
    DictsOver(ZoneFields,
              [shu_set |-> NumberTexts, fan_set |-> NumberTexts,
               is_crono |-> Numbers, t_set |-> Numbers, c |-> {Text("x")},
               id_zona |-> {Number(0)}])

ZoneIds == 1..MaxZone

\* the message of the RuntimeError of an update: the f-strings, the literal
\* part kept in one piece and the number as its digits
UpdateMessage(status, rescode) ==
    IF status = HTTP_OK
    THEN <<"Update failed with error code: ">> \o Str(rescode)
    ELSE <<"Update failed with HTTP status code: ">> \o Str(status)

\* what the coroutine of an update ends with
UpdateReply(status, rescode) ==
    [res |-> UpdateOutcome(status, rescode), status |-> status,
     rescode |-> rescode,
     message |-> IF UpdateOutcome(status, rescode) = ReturnedTrue
                 THEN <<>> ELSE UpdateMessage(status, rescode)]

\* updateCUState has its token, completes cmd and sends the request; cmd
\* keeps the dict as the caller passed it
updateCUStateSend(c) ==
    /\ body = NoBody
    /\ cmd' = c
    /\ body' = [op |-> "updateCUState", data |-> updateCUStateData(CmdDevice, Pin, c)]
    /\ reply' = NoReply
    /\ UNCHANGED <<sessionVars, result, coordVars, pairVars, entityVars, cipherVars,
                   setupVars>>

\* updateDeviceState has its token, completes cmd and sends the request
updateDeviceStateSend(c, zoneid) ==
    /\ body = NoBody
    /\ cmd' = c
    /\ body' = [op |-> "updateDeviceState",
                data |-> updateDeviceStateData(CmdDevice, Pin, zoneid, c)]
    /\ reply' = NoReply
    /\ UNCHANGED <<sessionVars, result, coordVars, pairVars, entityVars, cipherVars,
                   setupVars>>

\* updateCUState reads the response
updateCUStateReply(status, rescode) ==
    /\ body.op = "updateCUState"
    /\ reply = NoReply
    /\ reply' = UpdateReply(status, rescode)
    /\ UNCHANGED <<cmd, body, sessionVars, result, coordVars, pairVars, entityVars, cipherVars,
                   setupVars>>

\* updateDeviceState reads the response
updateDeviceStateReply(status, rescode) ==
    /\ body.op = "updateDeviceState"
    /\ reply = NoReply
    /\ reply' = UpdateReply(status, rescode)
    /\ UNCHANGED <<cmd, body, sessionVars, result, coordVars, pairVars, entityVars, cipherVars,
                   setupVars>>

CmdInit ==
    /\ CommandsIdle
    /\ PairingIdle
    /\ EntitiesIdle
    /\ CipherIdle
    /\ EntryIdle
    /\ CoordinatorIdle
    /\ token = NoToken
    /\ counter = 0
    /\ token_expiry = 0
    /\ user_id = "None"
    /\ api_lock = [locked |-> FALSE, waiters |-> <<>>]
    /\ flying = EmptyBag
    /\ now = 0
    /\ srvLogins = 0
    /\ srvBase = NoToken
    /\ srvCtr = 0
    /\ lastLogin = NoLogin
    /\ result = NoResult
    /\ wire = NoWire
    /\ calc = NoCalc

CmdNext ==
    \/ \E c \in CUCmds : updateCUStateSend(c)
    \/ \E c \in ZoneCmds, zoneid \in ZoneIds : updateDeviceStateSend(c, zoneid)
    \/ \E status \in Statuses, rescode \in ResCodes : updateCUStateReply(status, rescode)
    \/ \E status \in Statuses, rescode \in ResCodes : updateDeviceStateReply(status, rescode)

CmdSpec == CmdInit /\ [][CmdNext]_vars

(***************************************************************************)
(* The pairing (TecnosystemiConfigFlow): the user step logs in and lists   *)
(* the devices of the plants; the device step takes one PIN, tries it with *)
(* getDeviceState and either shows the device form again or creates the    *)
(* entry from self.user_input.                                             *)
(***************************************************************************)
CONF_PIN == <<"p", "i", "n">>

\* f"{device_id}_{CONF_PIN}"
PinKey(serial) == serial \o <<"_">> \o CONF_PIN

\* the PINs a user may type
Pins == {Str(n) : n \in 1..MaxPin}

\* list.pop(): the list without its last element
Pop(devs) == SubSeq(devs, 1, Len(devs) - 1)

\* the device leaves the list whatever getDeviceState returned
Remaining_Always(devs, state) == Pop(devs)

\* self.devices after the check of the PIN
Remaining(devs, state) == IF state = ReturnedNone THEN devs ELSE Pop(devs)

\* async_device_form: the form for self.devices[0]
async_device_form(f, errors) ==
    [f EXCEPT !.step = "device", !.current_device = f.devices[1],
              !.errors = errors, !.raised = NoException]

\* async_step_user with the user's input: login ends with loginRes and, if
\* it succeeded, GetPlants returns ps
StepUser(loginRes, ps) ==
    /\ flow.step = "user"
    /\ LET shown == async_step_user(loginRes)
           input == Put(Put(NoKeys, <<"username">>, <<"user">>),
                        <<"device_id">>, device_id)
           found == [flow EXCEPT !.info = ps, !.user_input = input,
                                 !.devices = Devices(ps)]
       IN flow' = IF shown # "device form"
                  THEN [flow EXCEPT !.errors = shown]
                  ELSE IF Len(Devices(ps)) = 0
                  THEN [found EXCEPT !.errors = "no_devices"]
                  ELSE async_device_form(found, "none")
    /\ validated' = validated
    /\ UNCHANGED <<sessionVars, result, coordVars, cmdVars, entityVars, cipherVars,
                   setupVars>>

\* what getDeviceState ends with in the device step
PinOutcomes == {ReturnedState, ReturnedNone, TokenNotAvailable}

\* async_step_device with the PIN the user typed: getDeviceState of the
\* current device with that PIN ends with res
StepDevice(pin, res) ==
    /\ flow.step = "device"
    /\ LET serial == flow.current_device.Serial
           stored == [flow EXCEPT !.user_input = Put(@, PinKey(serial), pin)]
           left == [stored EXCEPT !.devices = Remaining(@, res)]
           errors == IF res = ReturnedNone THEN "invalid_auth" ELSE "none"
       IN /\ flow' = IF res \notin {ReturnedState, ReturnedNone}
                     THEN [stored EXCEPT !.raised = res]
                     ELSE IF Len(left.devices) > 0
                     THEN async_device_form(left, errors)
                     ELSE [left EXCEPT !.step = "create_entry",
                                       !.raised = NoException]
          /\ validated' = IF res = ReturnedState
                          THEN validated \cup {<<serial, pin>>}
                          ELSE validated
    /\ UNCHANGED <<sessionVars, result, coordVars, cmdVars, entityVars, cipherVars,
                   setupVars>>

PairInit ==
    /\ PairingIdle
    /\ EntitiesIdle
    /\ CipherIdle
    /\ EntryIdle
    /\ CommandsIdle
    /\ CoordinatorIdle
    /\ token = NoToken
    /\ counter = 0
    /\ token_expiry = 0
    /\ user_id = "None"
    /\ api_lock = [locked |-> FALSE, waiters |-> <<>>]
    /\ flying = EmptyBag
    /\ now = 0
    /\ srvLogins = 0
    /\ srvBase = NoToken
    /\ srvCtr = 0
    /\ lastLogin = NoLogin
    /\ result = NoResult
    /\ wire = NoWire
    /\ calc = NoCalc

PairNext ==
    \/ \E loginRes \in LoginOutcomes, ps \in PlantConfigs : StepUser(loginRes, ps)
    \/ \E pin \in Pins, res \in PinOutcomes : StepDevice(pin, res)

PairSpec == PairInit /\ [][PairNext]_vars

(***************************************************************************)
(* The entities (climate.py, switch.py) and the snapshot they read.  The   *)
(* dicts are objects: coordinator.data is a dict of device key -> state    *)
(* dict, an entity's zone_state is a reference to one of the state dicts,  *)
(* and a command dict is made anew by the entity method and completed in   *)
(* place by the API.  A refresh cycle is taken here in one step, at its    *)
(* successful end.                                                         *)
(***************************************************************************)
AttributeError == "AttributeError"

DataRef(n) == <<"data", n, 0>>
StateRef(n, i) == <<"state", n, i>>
CmdRef == <<"cmd", 0, 0>>

Restrict(h, refs) == [r \in refs \cap DOMAIN h |-> h[r]]

\* the objects something still refers to
Live(h, cd, e) ==
    (IF cd = NoRef THEN {} ELSE {cd} \cup {h[cd][k] : k \in DOMAIN h[cd]})
    \cup {e.zone_state, CmdRef}

\* the dict "data" a successful cycle n returns, and its state dicts
CycleData(n) ==
    LET devs == Devices(plants)
        keys == {Key(devs[i]) : i \in 1..Len(devs)}
        at(k) == CHOOSE i \in 1..Len(devs) : Key(devs[i]) = k
    IN [r \in {DataRef(n)} \cup {StateRef(n, i) : i \in 1..Len(devs)} |->
           IF r = DataRef(n) THEN [k \in keys |-> StateRef(n, at(k))]
           ELSE DeviceState(devs[r[3]], n)]

\* a refresh cycle ends well and the coordinator takes the returned data
Publish ==
    /\ cycle < MaxCycles
    /\ cycle' = cycle + 1
    /\ coordinator_data' = DataRef(cycle + 1)
    /\ LET h == CycleData(cycle + 1) @@ heap
       IN heap' = Restrict(h, Live(h, DataRef(cycle + 1), entity))
    /\ UNCHANGED <<entity, refresh, plants, setups, data, published, cpc, raised,
                   attempts, calls>>
    /\ UNCHANGED <<sessionVars, result, cmdVars, pairVars, cipherVars,
                   setupVars>>

EntityKinds == {"master_climate", "zone_climate", "master_switch"}

\* the platform's async_setup_entry makes an entity of the device under key
\* k: zone=coordinator.data[device_id]
AddEntity(kind, k) ==
    /\ entity = NoEntity
    /\ coordinator_data # NoRef
    /\ k \in DOMAIN heap[coordinator_data]
    /\ entity' = [kind |-> kind, device_id |-> k,
                  zone_state |-> heap[coordinator_data][k],
                  phase |-> "idle", last |-> NotRun]
    /\ UNCHANGED <<heap, coordinator_data, refresh>>
    /\ UNCHANGED <<sessionVars, result, coordVars, cmdVars, pairVars, cipherVars,
                   setupVars>>

\* _handle_coordinator_update:
\* self.zone_state = self.coordinator.data[self.device_id]
handle_coordinator_update ==
    /\ entity # NoEntity
    /\ LET e == [entity EXCEPT !.zone_state = heap[coordinator_data][entity.device_id]]
       IN /\ entity' = e
          /\ heap' = Restrict(heap, Live(heap, coordinator_data, e))
    /\ UNCHANGED <<coordinator_data, refresh>>
    /\ UNCHANGED <<sessionVars, result, coordVars, cmdVars, pairVars, cipherVars,
                   setupVars>>

\* the dict an entity method makes from its zone_state zs: the master
\* climate's async_set_temperature, the zone climate's
\* async_set_temperature, the master switch's async_turn_off
EntityCmd(kind, zs) ==
    IF kind = "zone_climate"
    THEN [is_off |-> Number(0), t_set |-> Text(Str(zs.cycle)),
          name |-> Text(zs.Device)]
    ELSE [is_off |-> Number(IF kind = "master_switch" THEN 1 ELSE 0),
          is_cool |-> Number(1), cool_mod |-> Number(1),
          t_can |-> Number(zs.cycle)]

\* the API completes cmd: updateDeviceState for a zone, else updateCUState
Completed(kind, c) ==
    IF kind = "zone_climate" THEN updateDeviceStateCmd(c, Pin, 1)
    ELSE updateCUStateCmd(c, Pin)

\* the entity passes its zone_state as the command dict
CommandDict_ZoneState(e) == e.zone_state

\* the object the entity passes as cmd: the dict it has just made
CommandDict(e) == CmdRef

\* an entity method makes its command and awaits the update of the API,
\* which raises for want of a token or completes cmd and sends the request
EntityCommand(tokenOk) ==
    /\ entity # NoEntity
    /\ entity.phase = "idle"
    /\ refresh < MaxRefresh
    /\ IF tokenOk
       THEN /\ entity' = [entity EXCEPT !.phase = "awaiting", !.last = NotRun]
            /\ heap' = (CommandDict(entity) :>
                           Completed(entity.kind,
                                     EntityCmd(entity.kind, heap[entity.zone_state])))
                        @@ heap
       ELSE /\ entity' = [entity EXCEPT !.last = TokenNotAvailable]
            /\ heap' = heap
    /\ UNCHANGED <<coordinator_data, refresh>>
    /\ UNCHANGED <<sessionVars, result, coordVars, cmdVars, pairVars, cipherVars,
                   setupVars>>

\* the refresh left out when the update raised is requested all the same
RefreshAfter_Always(outcome) == TRUE

\* "await self.coordinator.async_request_refresh()" follows the awaited
\* update: it is reached when the update returned
RefreshAfter(outcome) == outcome = ReturnedTrue

\* the update of the API ends and with it the entity method
EntityReply(status, rescode) ==
    /\ entity.phase = "awaiting"
    /\ entity' = [entity EXCEPT !.phase = "idle",
                                !.last = UpdateOutcome(status, rescode)]
    /\ refresh' = IF RefreshAfter(UpdateOutcome(status, rescode))
                  THEN refresh + 1 ELSE refresh
    /\ heap' = Restrict(heap, DOMAIN heap \ {CmdRef})
    /\ coordinator_data' = coordinator_data
    /\ UNCHANGED <<sessionVars, result, coordVars, cmdVars, pairVars, cipherVars,
                   setupVars>>

\* async_get_config_entry_diagnostics: entry.runtime_data is the
\* coordinator, which has no attribute device_state
diagnostics ==
    /\ result' = [op |-> "async_get_config_entry_diagnostics", res |-> AttributeError]
    /\ UNCHANGED <<sessionVars, coordVars, cmdVars, pairVars, entityVars, cipherVars,
                   setupVars>>

EntityInit ==
    /\ EntitiesIdle
    /\ CipherIdle
    /\ EntryIdle
    /\ PairingIdle
    /\ CommandsIdle
    /\ plants \in PlantConfigs
    /\ setups = 1
    /\ data = <<>>
    /\ published = NoData
    /\ cpc = Idle
    /\ cycle = 0
    /\ raised = NoException
    /\ attempts = 0
    /\ calls = NoCalls
    /\ token = NoToken
    /\ counter = 0
    /\ token_expiry = 0
    /\ user_id = "None"
    /\ api_lock = [locked |-> FALSE, waiters |-> <<>>]
    /\ flying = EmptyBag
    /\ now = 0
    /\ srvLogins = 0
    /\ srvBase = NoToken
    /\ srvCtr = 0
    /\ lastLogin = NoLogin
    /\ result = NoResult
    /\ wire = NoWire
    /\ calc = NoCalc

EntityNext ==
    \/ Publish
    \/ \E kind \in EntityKinds, i \in 1..Len(Devices(plants)) :
          AddEntity(kind, Key(Devices(plants)[i]))
    \/ handle_coordinator_update
    \/ \E tokenOk \in BOOLEAN : EntityCommand(tokenOk)
    \/ \E status \in Statuses, rescode \in ResCodes : EntityReply(status, rescode)
    \/ diagnostics

EntitySpec == EntityInit /\ [][EntityNext]_vars

(***************************************************************************)
(* AESTool (api.py:79-116) as a function: a key material and a plaintext   *)
(* are drawn, encrypt is applied, then decrypt of a tool made from the     *)
(* same key material.                                                      *)
(***************************************************************************)
\* the first n characters of seed repeated
Cycle(seed, n) == [i \in 1..n |-> seed[((i - 1) % Len(seed)) + 1]]

Seeds == {<<"a">>, <<"~", " ">>, <<"T", "1", "_", "7">>}

Plaintexts == {Cycle(seed, n) : seed \in Seeds, n \in 0..MaxText}

KeyMaterials == {AESTool(device_id), AESTool(OtherDeviceId)}

CipherEncrypt ==
    /\ aes.pc = "new"
    /\ aes' = [aes EXCEPT !.ciphertext = AESTool_encrypt(aes.material, aes.plaintext),
                          !.pc = "encrypted"]
    /\ UNCHANGED <<sessionVars, result, coordVars, cmdVars, pairVars, entityVars,
                   setupVars>>

CipherDecrypt ==
    /\ aes.pc = "encrypted"
    /\ aes' = [aes EXCEPT !.decrypted = AESTool_decrypt(aes.material, aes.ciphertext),
                          !.pc = "decrypted"]
    /\ UNCHANGED <<sessionVars, result, coordVars, cmdVars, pairVars, entityVars,
                   setupVars>>

\* a second client (or a second call of the same client) makes its own tool
\* from the same key material and encrypts the same plaintext
CipherEncryptAgain ==
    /\ aes.pc \in {"encrypted", "decrypted"}
    /\ aes.again = <<>>
    /\ aes' = [aes EXCEPT !.again = getAESTool_encrypt(aes.material, 2, aes.plaintext)]
    /\ UNCHANGED <<sessionVars, result, coordVars, cmdVars, pairVars, entityVars,
                   setupVars>>

CipherInit ==
    /\ aes \in {[NoCipher EXCEPT !.material = k, !.plaintext = s, !.pc = "new"] :
                    k \in KeyMaterials, s \in Plaintexts}
    /\ EntryIdle
    /\ EntitiesIdle
    /\ PairingIdle
    /\ CommandsIdle
    /\ CoordinatorIdle
    /\ token = NoToken
    /\ counter = 0
    /\ token_expiry = 0
    /\ user_id = "None"
    /\ api_lock = [locked |-> FALSE, waiters |-> <<>>]
    /\ flying = EmptyBag
    /\ now = 0
    /\ srvLogins = 0
    /\ srvBase = NoToken
    /\ srvCtr = 0
    /\ lastLogin = NoLogin
    /\ result = NoResult
    /\ wire = NoWire
    /\ calc = NoCalc

CipherNext == CipherEncrypt \/ CipherDecrypt \/ CipherEncryptAgain

CipherSpec == CipherInit /\ [][CipherNext]_vars

(***************************************************************************)
(* The setup of a config entry (async_setup_entry): the login, then the    *)
(* coordinator's first refresh (its setup step and one refresh cycle, the  *)
(* steps of the coordinator above), then the platforms.  The framework's   *)
(* async_config_entry_first_refresh raises ConfigEntryNotReady when the    *)
(* first refresh raised.                                                   *)
(***************************************************************************)
\* _PLATFORMS
PLATFORMS == {"climate", "sensor", "switch"}

\* how the login of async_setup_entry can end
EntryLoginOutcomes ==
    {ReturnedTrue, LoginFailedCode, LoginFailedStatus, InvalidTokenFormat,
     ValueErrorRaised}

\* "await api.login()" of async_setup_entry ends with res
EntryLogin(res) ==
    /\ entry.step = "login"
    /\ result' = [op |-> "login", res |-> res]
    /\ LET next == async_setup_entry(res)
       IN entry' = IF next = "first refresh"
                   THEN [entry EXCEPT !.step = "first refresh"]
                   ELSE [entry EXCEPT !.step = "ended", !.raised = next]
    /\ UNCHANGED <<sessionVars, coordVars, cmdVars, pairVars, entityVars, cipherVars>>

\* a step of async_config_entry_first_refresh: the coordinator's setup step
\* and its first refresh cycle
EntryFirstRefresh ==
    /\ entry.step = "first refresh"
    /\ cycle = 0 \/ cpc # Idle
    /\ \/ \E ps \in PlantConfigs : async_setup(ps)
       \/ async_update_data
       \/ \E res \in GetStateOutcomes : async_api_call_state(res)
       \/ \E res \in LoginOutcomes : async_api_call_login(res)

\* the first refresh is over: "if not entry.runtime_data.data", then
\* async_forward_entry_setups
EntryForward ==
    /\ entry.step = "first refresh"
    /\ cycle = 1
    /\ cpc = Idle
    /\ result' = NoResult
    /\ entry' = IF raised # NoException \/ published.data = <<>>
                THEN [entry EXCEPT !.step = "ended", !.raised = ConfigEntryNotReady]
                ELSE [entry EXCEPT !.step = "ended", !.platforms = PLATFORMS]
    /\ UNCHANGED <<sessionVars, coordVars, cmdVars, pairVars, entityVars, cipherVars>>

SetupInit ==
    /\ entry = [NoEntry EXCEPT !.step = "login"]
    /\ CoordinatorIdle
    /\ CommandsIdle
    /\ PairingIdle
    /\ EntitiesIdle
    /\ CipherIdle
    /\ token = NoToken
    /\ counter = 0
    /\ token_expiry = 0
    /\ user_id = "None"
    /\ api_lock = [locked |-> FALSE, waiters |-> <<>>]
    /\ flying = EmptyBag
    /\ now = 0
    /\ srvLogins = 0
    /\ srvBase = NoToken
    /\ srvCtr = 0
    /\ lastLogin = NoLogin
    /\ result = NoResult
    /\ wire = NoWire
    /\ calc = NoCalc

SetupNext ==
    \/ \E res \in EntryLoginOutcomes : EntryLogin(res)
    \/ EntryFirstRefresh
    \/ EntryForward

SetupSpec == SetupInit /\ [][SetupNext]_vars

(***************************************************************************)
(* Definitions the properties use.                                         *)
(***************************************************************************)
\* the requests in flight that the claims call guarded: a login request (of
\* a caller or of calcToken) and the requests of getDeviceState,
\* updateCUState and updateDeviceState
GuardedFlying ==
    {r \in BagToSet(flying) :
        IsLoginCo(r) \/ r.op \in {"getDeviceState", "updateCUState", "updateDeviceState"}}

GetPlantsFlying == {r \in BagToSet(flying) : ~IsLoginCo(r) /\ r.op = "GetPlants"}

\* the coroutines that hold a per-request token: from calcToken's increment
\* to the end of their network call
Holding(l, fl) ==
    {l.waiters[i] : i \in 1..Len(l.waiters)} \cup {r \in BagToSet(fl) : ~IsLoginCo(r)}

\* C1: every rotating-token request put on the wire carries the token made of
\* the base token of the most recent completed login and the counter that
\* follows the counter of the previous request for that base token.
\* (Stated for the sessions whose stored base token is the one of their last
\* completed login, so that no malformed login token is involved.)
C1_RequestsInSequence ==
    wire # NoWire /\ token = srvBase =>
        wire.tok = encrypt(getAESTool, wire.base \o <<"_">> \o Str(wire.prev + 1))

\* C2: between an operation's counter increment and the end of its network
\* call no other operation increments the counter, stores a base token or
\* issues a request.
\* (Stated for the operations that take the lock at all.)
C2_TokenAndCallAtomic ==
    [][\A r \in Holding(api_lock, flying) \cap Holding(api_lock', flying') :
          ~IsLoginCo(r) /\ r.op # "GetPlants" =>
             /\ counter' = counter
             /\ token' = token
             /\ \A q \in BagToSet(flying') :
                   CopiesIn(q, flying') > CopiesIn(q, flying) => q = r]_vars

\* C3: at most one network call of login, getDeviceState, updateCUState or
\* updateDeviceState is in flight, and it is in flight with the lock held.
C3_OneGuardedCallInFlight ==
    /\ Cardinality(GuardedFlying) <= 1
    /\ \A r \in GuardedFlying : CopiesIn(r, flying) = 1 /\ api_lock.locked

\* C3 witness: a guarded call is in flight while another caller waits
C3_Witness ==
    /\ GuardedFlying # {}
    /\ api_lock.waiters # <<>>
    /\ \E i \in 1..Len(api_lock.waiters) : api_lock.waiters[i].op = "updateCUState"

\* C4: the GetPlants request is never in flight together with the request of
\* a login, getDeviceState, updateCUState or updateDeviceState.
C4_GetPlantsSerialized ==
    GetPlantsFlying # {} => GuardedFlying = {}

\* the coroutines a step adds
Started(l, fl, l2, fl2) ==
    LET before == fl (+) [r \in {l.waiters[i] : i \in 1..Len(l.waiters)} |->
                            Cardinality({i \in 1..Len(l.waiters) : l.waiters[i] = r})]
        after == fl2 (+) [r \in {l2.waiters[i] : i \in 1..Len(l2.waiters)} |->
                            Cardinality({i \in 1..Len(l2.waiters) : l2.waiters[i] = r})]
    IN {r \in BagToSet(after) : CopiesIn(r, after) > CopiesIn(r, before)}

\* C5: while the base token stays, the counter never decreases; a token
\* computation adds exactly 1 to it; any other change of the counter is a
\* login storing a base token together with the initial counter of the login
\* response.
C5_CounterMonotone ==
    [][/\ token' = token => counter' >= counter
       /\ calc'.tok # NoTok /\ ~calc'.relogin =>
             counter' = counter + 1 /\ token' = token
       /\ calc'.tok # NoTok /\ calc'.relogin => counter' = lastLogin'.init + 1
       /\ calc'.tok = NoTok /\ counter' # counter =>
             /\ srvLogins' = srvLogins + 1
             /\ result'.res = ReturnedTrue
             /\ token' = BaseToken(srvLogins')
             /\ counter' = lastLogin'.init]_vars

\* C5 witness: the second token of the second session has been computed
C5_Witness ==
    /\ calc.tok # NoTok
    /\ token = BaseToken(2)
    /\ counter = lastLogin.init + 2

\* C6: a token operation called on an authenticated session whose expiry has
\* passed starts a login and produces no token in that step; the token that
\* calcToken produces when this login returns is made of the base token and
\* the initial counter + 1 of that very login.
C6_ExpiryTriggersRelogin ==
    [][/\ (/\ token # NoToken
           /\ now >= token_expiry
           /\ Len(api_lock'.waiters) + BagCardinality(flying')
                 = Len(api_lock.waiters) + BagCardinality(flying) + 1)
          => /\ counter' = counter
             /\ calc' = NoCalc
             /\ wire' = NoWire
             /\ \A q \in Started(api_lock, flying, api_lock', flying') : q.tok = NoTok
       /\ calc'.relogin =>
             /\ srvLogins' = srvLogins + 1
             /\ token # BaseToken(srvLogins')
             /\ calc'.tok = encrypt(getAESTool, BaseToken(srvLogins') \o <<"_">>
                                                \o Str(lastLogin'.init + 1))]_vars

\* C6 witness: calcToken has come back from its login with a token
C6_Witness == calc.relogin /\ calc.tok # NoTok /\ lastLogin.init = MaxInit

\* C7: when the login that calcToken starts is refused (status other than
\* 200, or result code other than 0), the operation ends with "Token is not
\* available" and sends no request.  (Stated for the sessions whose stored
\* base token is the one of their last completed login.)
C7_FailedReloginYieldsUnavailable ==
    [][\A r \in BagToSet(flying), status \in Statuses, rescode \in ResCodes :
          (/\ r.nested
           /\ token = srvBase
           /\ status # HTTP_OK \/ rescode # 0
           /\ LoginResponse(r, status, rescode, 0, "base_counter"))
          => result' = [op |-> r.op, res |-> TokenNotAvailable] /\ wire' = NoWire]_vars

\* C8: after a login attempt has failed while the stored token is expired,
\* no base token is stored.  (Stated for the sessions that completed a
\* login before, which is what sets an expiry.)
C8_FailedLoginClearsToken ==
    /\ result.res \in {LoginFailedStatus, LoginFailedCode}
    /\ token_expiry > 0
    /\ now >= token_expiry
    => token = NoToken

\* C9: while no base token is stored, a token operation ends at once with
\* "Token is not available": no coroutine of a token operation exists (none
\* waits for the lock, none is in a request, none is in a login), nothing is
\* put on the wire, no token is computed and the counter keeps its value.
C9_UnauthenticatedFailsEarly ==
    token = NoToken =>
        /\ \A r \in Holding(api_lock, flying) \cup BagToSet(flying) : r = LoginCo
        /\ result.op \in TokenOps => result.res = TokenNotAvailable
        /\ wire = NoWire
        /\ calc = NoCalc
        /\ counter = 0

\* C9 witness: a token operation has just failed on the unauthenticated
\* session
C9_Witness ==
    token = NoToken /\ result.op \in TokenOps /\ result.res = TokenNotAvailable

\* C10: after the login token "T1_0" the first per-request token is the
\* encryption of "T1_1"; when the login forced by the expiry returns "T2_0",
\* the per-request token is the encryption of "T2_1".
C10_EndToEndRotation ==
    [][/\ (/\ lastLogin.text = <<"T", "1", "_", "0">>
           /\ lastLogin.fresh
           /\ calc'.tok # NoTok
           /\ ~calc'.relogin)
          => calc'.tok = encrypt(getAESTool, <<"T", "1", "_", "1">>)
       /\ calc'.relogin /\ lastLogin'.text = <<"T", "2", "_", "0">>
          => calc'.tok = encrypt(getAESTool, <<"T", "2", "_", "1">>)]_vars

\* C10 witness: the forced login has returned "T2_0" and the token is made
C10_Witness ==
    /\ calc.relogin
    /\ lastLogin.text = <<"T", "2", "_", "0">>
    /\ calc.tok = encrypt(getAESTool, <<"T", "2", "_", "1">>)

\* C11: a login whose decrypted token does not split on "_" into exactly two
\* parts ends with "Invalid token format" and leaves the stored base token,
\* counter and expiry as they were; a login that stores a token had a text
\* of exactly two parts.
C11_StoreTokenTwoParts ==
    [][\A r \in BagToSet(flying), c \in InitCounters, shape \in Shapes :
          LET parts == Split(LoginText(srvLogins + 1, c, shape), "_")
          IN (shape # "other_key" /\ LoginResponse(r, HTTP_OK, 0, c, shape)) =>
                /\ Len(parts) # 2 =>
                      /\ result'.res = InvalidTokenFormat
                      /\ token' = token
                      /\ counter' = counter
                      /\ token_expiry' = token_expiry
                /\ (result'.res = ReturnedTrue \/ calc'.relogin) => Len(parts) = 2]_vars

\* C11 witness: a login token of another shape was refused on a session in
\* use, which keeps its base token and counter
C11_Witness ==
    /\ result = [op |-> "login", res |-> InvalidTokenFormat]
    /\ token = BaseToken(1)
    /\ counter = MaxInit + 1
    /\ srvLogins = 2

\* C12: a login that ends on a malformed token (wrong number of parts, or
\* not decryptable) is reported by entry setup as not ready, by pairing as
\* an authentication failure and by a refresh cycle as UpdateFailed.
C12_MalformedLoginHandled ==
    result.op = "login" /\ result.res \in {InvalidTokenFormat, ValueErrorRaised} =>
        /\ async_setup_entry(result.res) = ConfigEntryNotReady
        /\ async_step_user(result.res) = "invalid_auth"
        /\ async_update_data_except(result.res) = UpdateFailed

\* the key of a device as the snapshot has it: "<plant id>_<device serial>"
SnapshotKey(dev) == Str(dev.LVPL_Id) \o <<"_">> \o dev.Serial

\* C13: when getDeviceState returns None for a device, the cycle logs in
\* once and fetches that device once more, never more than that; when the
\* second fetch returns a state, the cycle goes on to the next device with
\* the state stored under the device's key or, after the last device,
\* returns a snapshot that holds it.
C13_AbsentStateRetriedOnce ==
    [][/\ calls'.login <= 1
       /\ calls'.fetch <= 2
       /\ (cpc.phase = "fetch" /\ result'.res = ReturnedNone) =>
             /\ cpc' = [cpc EXCEPT !.phase = "login"]
             /\ calls' = [login |-> 1, fetch |-> 1]
       /\ (cpc.phase = "login" /\ result'.res = ReturnedTrue) =>
             /\ cpc' = [cpc EXCEPT !.phase = "refetch"]
             /\ calls' = [login |-> 1, fetch |-> 2]
       /\ (cpc.phase = "refetch" /\ result'.res = ReturnedState) =>
             LET dev == Devices(plants)[cpc.i]
                 got == IF cpc.i < Len(Devices(plants)) THEN data' ELSE published'.data
             IN /\ SnapshotKey(dev) \in DOMAIN got
                /\ got[SnapshotKey(dev)] = DeviceState(dev, cycle)
                /\ raised' = NoException
                /\ IF cpc.i < Len(Devices(plants))
                   THEN cpc' = [phase |-> "fetch", attempt |-> cpc.attempt,
                                i |-> cpc.i + 1]
                   ELSE cpc' = Idle /\ published'.set]_vars

\* C13 witness: the cycle returned its snapshot after the last device's
\* state came with the second fetch
C13_Witness ==
    /\ cpc = Idle
    /\ raised = NoException
    /\ calls = [login |-> 1, fetch |-> 2]
    /\ result = [op |-> "getDeviceState", res |-> ReturnedState]
    /\ published.set
    /\ Len(Devices(plants)) = 2

\* C14: when the fetch after the re-login returns None as well, what leaves
\* _async_update_data is UpdateFailed.
C14_AbsentTwiceIsUpdateFailed ==
    [][(cpc.phase = "refetch" /\ result'.res = ReturnedNone) =>
          raised' = UpdateFailed]_vars

\* C15: one invocation of _async_update_data runs the fetch of all devices
\* at most twice: a timeout of the first attempt starts the one retry, at
\* the first device and with an empty result; a timeout of the retry ends
\* the invocation.
C15_RetryOnceInFull ==
    [][/\ cpc'.attempt <= 2
       /\ (result'.res = TimeoutError /\ cpc.attempt = 1) =>
             /\ cpc' = [phase |-> "fetch", attempt |-> 2, i |-> 1]
             /\ data' = <<>>
             /\ calls' = [login |-> 0, fetch |-> 1]
             /\ cycle' = cycle
       /\ (result'.res = TimeoutError /\ cpc.attempt = 2) =>
             cpc' = Idle /\ raised' # NoException
       /\ (cpc # Idle /\ cpc' # Idle /\ cpc'.attempt # cpc.attempt) =>
             cpc.attempt = 1 /\ result'.res = TimeoutError]_vars

\* C15 witness: the retry has fetched the first of three devices again
C15_Witness ==
    /\ cpc = [phase |-> "fetch", attempt |-> 2, i |-> 2]
    /\ Len(Devices(plants)) = 3
    /\ DOMAIN data = {SnapshotKey(Devices(plants)[1])}

C17_SnapshotWhole ==
    published.set =>
        LET devs == Devices(plants)
        IN /\ DOMAIN published.data = {SnapshotKey(devs[i]) : i \in 1..Len(devs)}
           /\ Cardinality(DOMAIN published.data) = Len(devs)
           /\ \E n \in 1..cycle : \A i \in 1..Len(devs) :
                 published.data[SnapshotKey(devs[i])] = DeviceState(devs[i], n)

\* C17 witness: the second cycle published the states of three devices
\* while it was not the first to do so
C17_Witness ==
    /\ published.set
    /\ Len(Devices(plants)) = 3
    /\ cycle = 2
    /\ \A k \in DOMAIN published.data : published.data[k].cycle = 2

\* C18: a cycle that ends on anything but the state of its last device
\* (an absent state after the retry, a failed login, an unavailable token,
\* the timeout of the retry) ends with an exception and leaves the snapshot
\* as it was; the snapshot changes only when a cycle returns.
C18_FailedCycleKeepsSnapshot ==
    [][/\ (cpc # Idle /\ cpc' = Idle /\ result'.res # ReturnedState) =>
             raised' # NoException /\ published' = published
       /\ published' # published =>
             cpc' = Idle /\ raised' = NoException]_vars

\* C18 witness: the second cycle failed after it had fetched a device, and
\* the snapshot is still the one of the first cycle
C18_Witness ==
    /\ cpc = Idle
    /\ cycle = 2
    /\ raised \in {UpdateFailed, TypeError, TimeoutError, InvalidTokenFormat}
    /\ published.set
    /\ Len(Devices(plants)) = 2
    /\ \A k \in DOMAIN published.data : published.data[k].cycle = 1


\* C19: an update (updateCUState, updateDeviceState) returns True exactly
\* when the response has status 200 and result code 0; with status 200 and
\* another result code it raises the RuntimeError whose message ends with
\* that result code, and with another status the RuntimeError whose message
\* ends with that status.
C19_UpdateOutcome ==
    reply # NoReply =>
        /\ body.op \in {"updateCUState", "updateDeviceState"}
        /\ reply.res = ReturnedTrue <=> (reply.status = HTTP_OK /\ reply.rescode = 0)
        /\ (reply.status = HTTP_OK /\ reply.rescode # 0) =>
               /\ reply.res = UpdateFailedCode
               /\ Head(reply.message) = "Update failed with error code: "
               /\ ParseInt(Tail(reply.message)) = [ok |-> TRUE, val |-> reply.rescode]
        /\ reply.status # HTTP_OK =>
               /\ reply.res = UpdateFailedStatus
               /\ Head(reply.message) = "Update failed with HTTP status code: "
               /\ ParseInt(Tail(reply.message)) = [ok |-> TRUE, val |-> reply.status]

\* an update of a zone answered with status 200 and result code 1
C19_Witness ==
    /\ body.op = "updateDeviceState"
    /\ reply # NoReply
    /\ reply.status = HTTP_OK
    /\ reply.rescode = 1
    /\ reply.res = UpdateFailedCode

\* C20: the Cmd of the body is the caller's dict completed.  updateCUState
\* sends the caller's is_off, is_cool, cool_mod and t_can, or 0, 1, 1 and 230
\* for those the caller left out, and c = "upd_cu", the pin, f_inv = 1 and
\* f_est = 1 whatever the caller passed; updateDeviceState sends the caller's
\* shu_set, fan_set and is_crono, or "0", "0" and 0, and c = "upd_zona", the
\* pin and id_zona = the zone id whatever the caller passed; every other
\* field of the caller is sent as it was, and nothing else is sent.
C20_CommandMerged ==
    body # NoBody =>
        LET sent == body.data.Cmd.json
            kept(f, default) == sent[f] = IF f \in DOMAIN cmd THEN cmd[f] ELSE default
            CUSet == {"c", "pin", "f_inv", "f_est"}
            CUDefaulted == {"is_off", "is_cool", "cool_mod", "t_can"}
            ZoneSet == {"c", "pin", "id_zona"}
            ZoneDefaulted == {"shu_set", "fan_set", "is_crono"}
        IN /\ body.op = "updateCUState" =>
                /\ DOMAIN sent = DOMAIN cmd \cup CUSet \cup CUDefaulted
                /\ kept("is_off", Number(0))
                /\ kept("is_cool", Number(1))
                /\ kept("cool_mod", Number(1))
                /\ kept("t_can", Number(230))
                /\ sent["c"] = Text("upd_cu")
                /\ sent["pin"] = body.data.Pin
                /\ sent["f_inv"] = Number(1)
                /\ sent["f_est"] = Number(1)
                /\ \A f \in DOMAIN cmd \ (CUSet \cup CUDefaulted) : sent[f] = cmd[f]
           /\ body.op = "updateDeviceState" =>
                /\ DOMAIN sent = DOMAIN cmd \cup ZoneSet \cup ZoneDefaulted
                /\ kept("shu_set", Text("0"))
                /\ kept("fan_set", Text("0"))
                /\ kept("is_crono", Number(0))
                /\ sent["c"] = Text("upd_zona")
                /\ sent["pin"] = body.data.Pin
                /\ sent["id_zona"] = Number(body.data.ZoneId)
                /\ \A f \in DOMAIN cmd \ (ZoneSet \cup ZoneDefaulted) : sent[f] = cmd[f]

\* updateCUState called with t_can, t_set, c and f_inv but without is_off
C20_Witness ==
    /\ body # NoBody
    /\ body.op = "updateCUState"
    /\ {"t_can", "t_set", "c", "f_inv"} \subseteq DOMAIN cmd
    /\ "is_off" \notin DOMAIN cmd
    /\ cmd["t_can"] = Number(1)
    /\ cmd["f_inv"] = Number(0)
    /\ body.data.Cmd.json["t_can"] = Number(1)
    /\ body.data.Cmd.json["is_off"] = Number(0)
    /\ body.data.Cmd.json["f_inv"] = Number(1)
    /\ body.data.Cmd.json["t_set"] = cmd["t_set"]


\* C21: GetPlants returns the plant list when the response has status 200 and
\* result code 0 and returns the empty list, without raising, for every
\* other response.
C21_GetPlantsOutcome ==
    [][\A r \in BagToSet(flying), status \in Statuses, rescode \in ResCodes :
          \A decodes \in Decodes(status) :
             GetPlantsResponse(r, status, rescode, decodes) =>
                result'.res = IF status = HTTP_OK /\ rescode = 0
                              THEN ReturnedPlants ELSE ReturnedEmpty]_vars


\* C22: getDeviceState returns the decoded body when the response has status
\* 200 and returns None, raising nothing, for every other status.
C22_getDeviceStateOutcome ==
    [][\A r \in BagToSet(flying), status \in Statuses :
          getDeviceStateResponse(r, status) =>
             /\ status = HTTP_OK => result' = [op |-> "getDeviceState", res |-> ReturnedState]
             /\ status # HTTP_OK => result' = [op |-> "getDeviceState", res |-> ReturnedNone]]_vars

\* C22 witness: a getDeviceState sent on a session in use ended with None
C22_Witness ==
    /\ result = [op |-> "getDeviceState", res |-> ReturnedNone]
    /\ token = srvBase
    /\ token # NoToken
    /\ counter > 0


\* C23: the lock is released on every exit of a guarded network call (a
\* response, an error raised inside the call, a cancellation by the timeout
\* of the cycle): whenever no request of login, getDeviceState,
\* updateCUState or updateDeviceState is in flight the lock is not held, and
\* if an operation waits for it, the first waiter can take it.
C23_LockReleasedOnExit ==
    GuardedFlying = {} =>
        /\ ~api_lock.locked
        /\ api_lock.waiters # <<>> => ENABLED LockAcquired

\* C23 witness: a request was cancelled while another operation waited for
\* the lock, which is free for the waiter
C23_Witness ==
    /\ result.res = CancelledError
    /\ GuardedFlying = {}
    /\ ~api_lock.locked
    /\ api_lock.waiters # <<>>


\* C26: in pairing, a login the service rejects (result code other than 0)
\* is shown as "invalid_auth", and a login that fails on the transport (a
\* status other than 200) is shown as another error.
C26_PairingLoginErrors ==
    result.op = "login" =>
        /\ result.res = LoginFailedCode => async_step_user(result.res) = "invalid_auth"
        /\ result.res = LoginFailedStatus => async_step_user(result.res) # "invalid_auth"


\* the serial numbers of the devices the user step found
Discovered == {Devices(flow.info)[i].Serial : i \in 1..Len(Devices(flow.info))}

\* C24: the entry the pairing creates holds the key "<serial>_pin" for every
\* device found in the user's plants.
C24_EntryHasEveryPin ==
    flow.step = "create_entry" =>
        \A serial \in Discovered : PinKey(serial) \in DOMAIN flow.user_input

\* C25: a PIN for which getDeviceState returns None leaves the list of
\* pending devices as it was and shows the device form again with
\* "invalid_auth"; and every "<serial>_pin" of a created entry holds a PIN
\* for which getDeviceState of that device returned a state.
C25_EntryOnlyAfterValidation ==
    [][/\ \A pin \in Pins :
             StepDevice(pin, ReturnedNone) =>
                /\ flow'.devices = flow.devices
                /\ flow'.step = "device"
                /\ flow'.current_device = flow.current_device
                /\ flow'.errors = "invalid_auth"
       /\ flow'.step = "create_entry" =>
             \A serial \in {Devices(flow'.info)[i].Serial :
                               i \in 1..Len(Devices(flow'.info))} :
                PinKey(serial) \in DOMAIN flow'.user_input =>
                   <<serial, flow'.user_input[PinKey(serial)]>> \in validated']_vars

\* C25 witness: an entry was created after a PIN of its device had been
\* refused
C25_Witness ==
    /\ flow.step = "create_entry"
    /\ flow.errors = "invalid_auth"
    /\ \E serial \in Discovered :
          /\ PinKey(serial) \in DOMAIN flow.user_input
          /\ validated = {<<serial, flow.user_input[PinKey(serial)]>>}
          /\ flow.user_input[PinKey(serial)] = Str(2)


\* the published snapshot by value: None, or device key -> state dict
Snapshot ==
    IF coordinator_data = NoRef THEN NoKeys
    ELSE [k \in DOMAIN heap[coordinator_data] |-> heap[heap[coordinator_data][k]]]

\* C27: an entity command requests a refresh when its update of the API
\* returned (status 200, result code 0) and does not request one when the
\* update raised; no other step requests a refresh.
C27_RefreshAfterSuccess ==
    [][/\ \A status \in Statuses, rescode \in ResCodes :
             EntityReply(status, rescode) =>
                refresh' = IF status = HTTP_OK /\ rescode = 0
                           THEN refresh + 1 ELSE refresh
       /\ refresh' # refresh =>
             /\ entity.phase = "awaiting"
             /\ entity'.last = ReturnedTrue
       /\ entity'.last = TokenNotAvailable => refresh' = refresh]_vars

\* C27 witness: a command that raised after one that returned, with the one
\* refresh of the first
C27_Witness ==
    /\ refresh = 1
    /\ entity.phase = "idle"
    /\ entity.last = UpdateFailedCode

\* C28: coordinator.data and the state dicts in it change only when the
\* coordinator replaces the snapshot at the end of a successful cycle; the
\* entity commands, the update handlers and the diagnostics leave them as
\* they are.
C28_SnapshotOnlyReplaced ==
    [][(Snapshot' # Snapshot \/ coordinator_data' # coordinator_data) =>
          /\ cycle' = cycle + 1
          /\ coordinator_data' = DataRef(cycle')
          /\ entity' = entity
          /\ refresh' = refresh]_vars

\* C28 witness: the API has completed the command dict of an entity that
\* still holds a state dict of an earlier snapshot
C28_Witness ==
    /\ entity.phase = "awaiting"
    /\ CmdRef \in DOMAIN heap
    /\ "pin" \in DOMAIN heap[CmdRef]
    /\ coordinator_data = DataRef(2)
    /\ entity.zone_state = StateRef(1, 1)
    /\ heap[entity.zone_state].cycle = 1


\* C29: the plants are fetched once, by the setup step before the first
\* refresh cycle; no step of a cycle, of its retry or of its re-login
\* fetches them again or changes the list the cycles go through.
C29_TopologyFetchedOnce ==
    [][/\ setups' <= 1
       /\ cycle' > 0 => setups' = 1
       /\ (setups' # setups \/ plants' # plants) =>
             /\ setups = 0
             /\ cycle = 0
             /\ cpc = Idle
             /\ result'.op = "GetPlants"]_vars

\* C29 witness: the second cycle re-logs in for the second device of the
\* plants that the setup fetched
C29_Witness ==
    /\ setups = 1
    /\ cycle = 2
    /\ cpc.phase = "refetch"
    /\ cpc.i = 2
    /\ calls.login = 1
    /\ Len(Devices(plants)) >= 2


\* C30: cipher round trip.  For every plaintext and every key material,
\* decrypt applied to what encrypt returned, by a tool of the same key
\* material, returns the plaintext.
C30_RoundTrip ==
    aes.pc = "decrypted" =>
        aes.decrypted = [ok |-> TRUE, text |-> aes.plaintext]

\* a plaintext of exactly one block went through both conversions: its
\* ciphertext is two blocks (44 base64 characters) and is not the plaintext
C30_Witness ==
    /\ aes.pc = "decrypted"
    /\ Len(aes.plaintext) = BLOCK
    /\ Len(aes.ciphertext) = 44
    /\ aes.ciphertext # aes.plaintext
    /\ aes.decrypted.ok
    /\ aes.decrypted.text = aes.plaintext

\* C31: cipher determinism.  A second encryption of the same plaintext by a
\* tool made from the same key material gives the ciphertext of the first:
\* two clients with the same device identifier, base token and counter
\* compute the same per-request token.
C31_Deterministic ==
    aes.again # <<>> => aes.again = aes.ciphertext

\* the plaintext is the text of a per-request token (base token T1, counter
\* 7) under the key material of the client, and was encrypted twice
C31_Witness ==
    /\ aes.plaintext = BaseToken(1) \o <<"_">> \o Str(7)
    /\ aes.material = getAESTool
    /\ aes.ciphertext # <<>>
    /\ aes.again = aes.ciphertext

\* an outcome of an awaited call that is an exception other than the timeout
FailsOtherwise(res) ==
    res \notin {TimeoutError, ReturnedState, ReturnedNone, ReturnedTrue}

\* C32: _async_update_data calls _async_api_call a second time if and only
\* if the first call ended with a timeout.  A first call that ends with
\* another failure (token not available, failed re-login, malformed token,
\* state absent twice) ends the invocation with an exception after that one
\* call; a first call that times out is followed by the second.
C32_SecondAttemptIffTimeout ==
    [][/\ (cpc.attempt = 1 /\ cpc' # cpc /\ result'.res = TimeoutError) =>
             cpc'.attempt = 2
       /\ cpc'.attempt = 2 =>
             cpc.attempt = 2 \/ (cpc.attempt = 1 /\ result'.res = TimeoutError)
       /\ (cpc.attempt = 1 /\ cpc' # cpc /\ FailsOtherwise(result'.res)) =>
             /\ cpc' = Idle
             /\ attempts' = 1
             /\ raised' # NoException
       /\ (cpc.attempt = 1 /\ cpc.phase = "refetch" /\ result'.res = ReturnedNone) =>
             /\ cpc' = Idle
             /\ attempts' = 1
             /\ raised' # NoException
       /\ attempts' = 2 =>
             attempts = 2 \/ cpc.attempt = 2]_vars

\* C32 witness: a cycle ended with UpdateFailed after its only attempt, in
\* which the re-login failed
C32_Witness ==
    /\ cpc = Idle
    /\ cycle >= 1
    /\ attempts = 1
    /\ raised = UpdateFailed
    /\ result = [op |-> "login", res |-> LoginFailedStatus]
    /\ calls.login = 1

Waiting(r) == \E i \in 1..Len(api_lock.waiters) : api_lock.waiters[i] = r

\* C33: no operation waits for the lock while it holds it.  Whenever the
\* lock is held, its holder is suspended in its network call (so it is not
\* the login of a calcToken waiting behind its own caller).  The waiters
\* are served in the order they came: the queue changes by a coroutine
\* joining at the end or by the first one taking the lock.  When every
\* network call terminates, a held lock is released, a released lock with
\* waiters is taken by the first of them, and the login that a calcToken
\* started comes to hold the lock; so every waiter acquires the lock after
\* the finitely many holders ahead of it have completed.
C33_NoSelfDeadlock ==
    /\ [](api_lock.locked => GuardedFlying # {})
    /\ [][\/ api_lock'.waiters = api_lock.waiters
          \/ /\ Len(api_lock'.waiters) = Len(api_lock.waiters) + 1
             /\ SubSeq(api_lock'.waiters, 1, Len(api_lock.waiters)) = api_lock.waiters
          \/ /\ api_lock.waiters # <<>>
             /\ api_lock'.waiters = Tail(api_lock.waiters)
             /\ ~api_lock.locked
             /\ api_lock'.locked
             /\ Head(api_lock.waiters) \in GuardedFlying']_vars
    /\ api_lock.locked ~> ~api_lock.locked
    /\ (~api_lock.locked /\ api_lock.waiters # <<>>) ~> api_lock.locked
    /\ \A o \in TokenOps :
          Waiting(NestedLoginCo(o)) ~> (NestedLoginCo(o) \in GuardedFlying)

\* C33 witness: the login that calcToken started on expiry is in its request
\* and holds the lock while another operation waits for the lock
C33_Witness ==
    /\ \E r \in GuardedFlying : r.nested
    /\ api_lock.locked
    /\ api_lock.waiters # <<>>
    /\ now >= token_expiry
    /\ token # NoToken

\* a token request ends in this step: its response is read, or the timeout
\* of the cycle cancels it in its request or in its wait for the lock
TokenRequestEnds ==
    \/ \E r \in BagToSet(flying), status \in Statuses, rescode \in ResCodes :
          \/ \E decodes \in Decodes(status) :
                GetPlantsResponse(r, status, rescode, decodes)
          \/ getDeviceStateResponse(r, status)
          \/ updateCUStateResponse(r, status, rescode)
          \/ updateDeviceStateResponse(r, status, rescode)
          \/ (~IsLoginCo(r) /\ CancelRequest(r))
    \/ \E i \in 1..Len(api_lock.waiters) :
          ~IsLoginCo(api_lock.waiters[i]) /\ CancelWaiter(i)

\* C34: an invocation of GetPlants, getDeviceState, updateCUState or
\* updateDeviceState on a session that has a token in force adds exactly 1
\* to the counter before its request, and the end of the request leaves the
\* counter as it is, whatever the outcome: a state, a success, a status
\* other than 200, a rejected command, or the cancellation by the timeout of
\* the cycle.
C34_OneCounterPerInvocation ==
    [][/\ \A o \in TokenOps :
             (Call(o) /\ token # NoToken /\ now < token_expiry) =>
                /\ counter' = counter + 1
                /\ calc'.tok = RequestToken(token, counter + 1)
       /\ TokenRequestEnds =>
             /\ counter' = counter
             /\ token' = token
             /\ result'.op \in TokenOps]_vars

\* C34 witness: the second invocation on a session was a getDeviceState that
\* the timeout cancelled, and the counter stays at the two values consumed
C34_Witness ==
    /\ result = [op |-> "getDeviceState", res |-> CancelledError]
    /\ token = BaseToken(1)
    /\ lastLogin.init = 0
    /\ counter = 2

\* the platforms were set up only after the login returned, the topology was
\* fetched and the first refresh returned a snapshot that is not empty
PlatformsGated ==
    entry.platforms # {} =>
        /\ entry.platforms = PLATFORMS
        /\ entry.raised = NoException
        /\ setups = 1
        /\ cycle = 1
        /\ raised = NoException
        /\ published.set
        /\ published.data # <<>>

\* C35: entry setup is ordered and gated.  The platforms are set up only
\* after the login succeeded, the topology was fetched and the first refresh
\* produced a snapshot that is not empty; a setup that ended otherwise (the
\* login failed, or the first snapshot is empty) ended with
\* ConfigEntryNotReady and set up no platform.
C35_SetupGated ==
    /\ PlatformsGated
    /\ (entry.step = "ended" /\ entry.platforms = {}) =>
          entry.raised = ConfigEntryNotReady
    /\ entry.raised # NoException => entry.platforms = {}
====
